---- MODULE Spec2Model ----
(***************************************************************************)
(* CryptoFeeder: session supervisor (connection_manager.rs), packet       *)
(* builder (packet_builder.rs, protocol.rs) and multicast emitter         *)
(* (udp_broadcaster.rs) as a state machine.                                *)
(*                                                                         *)
(* The process runs on a multi-threaded tokio runtime (main.rs:40-53), one *)
(* task per session.  The steps below are the atomic steps of a session    *)
(* task on the shared state: one fetch_add on the sequence counter (one    *)
(* datagram built), one socket send, one frame read.  Steps of different   *)
(* sessions interleave freely.                                             *)
(***************************************************************************)
EXTENDS Integers, Sequences, FiniteSets, TLC

(***************************************************************************)
(* Program constants                                                       *)
(***************************************************************************)
MAX_RETRY_COUNT == 10

CONNECTION_STATUS_DISCONNECTED == 0
CONNECTION_STATUS_CONNECTING == 1
CONNECTION_STATUS_CONNECTED == 2
CONNECTION_STATUS_RECONNECTING == 3
CONNECTION_STATUS_FAILED == 4

MESSAGE_TYPE_ORDER_BOOK == 0
MESSAGE_TYPE_TRADE_TICK == 1
MESSAGE_TYPE_CONNECTION_STATUS == 101
\* the message types of the single-value datagrams (wire format table)
MESSAGE_TYPE_INDEX_PRICE == 2
MESSAGE_TYPE_MARK_PRICE == 3
MESSAGE_TYPE_FUNDING_RATE == 4

HeaderSize == 67
ItemSize == 16
MaxPacketSize == 1472
MaxItemCount == 80
IsLastBit == 128
FieldSize == 20
MaxFieldText == 19
OrderBookChunk == 80
TradeBatchChunk == 80
TradeChunk == 50
InitialSequence == 1

(***************************************************************************)
(* Bounds of the model                                                     *)
(***************************************************************************)
\* observation horizon: datagrams built while the emission trace is recorded
MaxSeq == 4
\* text/binary frames the exchange of a session delivers
MaxFrames == 1
\* handshakes the exchange of a session accepts
MaxConnects == 1
\* levels a side of an order book handed to the builder is sized around
MaxLevels == 81
\* levels per side of the large depthUpdate (2 * BigDepth > 80: two chunks)
BigDepth == 41
\* one hundred model units are 10^-8: real values are integers of 10^-10
FineScale == 100
\* frames the exchange delivers to the session whose whole feed is followed
FeedFrames == 2
\* bids and asks of the large depthUpdate handed to the builder
ManyBids == 85
ManyAsks == 95
\* records in a Multi batch
MaxMulti == 2
\* characters of the symbols enumerated over the small alphabet
MaxSymbol == 4
\* characters, blanks around it aside, of the longest text handed to
\* set_symbol / set_exchange
MaxText == 40
\* the largest retry number handed to calculate_backoff_delay
MaxRetryArg == 60

\* the largest vector of trades handed to a trade path
BigTrades == 104
\* the largest price handed to TradeTickItem::new, in units of 10^-8
MaxWirePrice == 200
\* ports datagrams are sent to: the configured port and the others
MaxPorts == 2
\* datagrams the socket takes while the emitter is followed on its own
MaxSends == 2
\* observation horizon of the mark-price session: datagrams built
MarkSeq == 5

\* the configured sessions (symbol config: one task per session)
Sessions == {1, 2}

SendResults == {"ok", "wouldblock", "err"}

Min(a, b) == IF a < b THEN a ELSE b
Max(a, b) == IF a < b THEN b ELSE a


(***************************************************************************)
(* Wire format (protocol.rs)                                               *)
(***************************************************************************)
\* a set_flags_and_count that puts the is_last flag on bit 6
SetFlagsAndCountBit6(is_last, count) ==
    LET item_count == Min(count % 256, MaxItemCount) % IsLastBit
    IN  IF is_last THEN item_count + (IsLastBit \div 2) ELSE item_count

\* a set_flags_and_count that keeps the count within the trade chunk size
SetFlagsAndCountUpToFifty(is_last, count) ==
    LET item_count == Min(count % 256, TradeChunk) % IsLastBit
    IN  IF is_last THEN item_count + IsLastBit ELSE item_count

\* PacketHeader::set_flags_and_count: count.min(80) & 0x7F, bit 7 = is_last
SetFlagsAndCount(is_last, count) ==
    LET item_count == Min(count % 256, MaxItemCount) % IsLastBit
    IN  IF is_last THEN item_count + IsLastBit ELSE item_count

\* PacketHeader::is_last: (flags_and_count & 0b1000_0000) != 0
IsLast(fc) == (fc \div IsLastBit) % 2 = 1

\* PacketHeader::item_count: flags_and_count & 0b0111_1111
ItemCount(fc) == fc % IsLastBit

\* (value * 10^8) as i64: truncation toward zero of a real given in 10^-10
ScaleToWire(v) == IF v >= 0 THEN v \div FineScale ELSE -((-v) \div FineScale)

\* set_quantity_and_flag: bits 0-62 hold the quantity, bit 63 the side flag.
\* The model's quantities are non-negative and below 2^31, where
\* quantity & 0x7FFF_FFFF_FFFF_FFFF is the quantity itself.
SetQuantityAndFlag(quantity, flag) ==
    CASE quantity >= 0 -> [qty |-> quantity, flag |-> flag]

\* OrderBookItem::new / TradeTickItem::new
ItemNew(price, quantity, flag) ==
    LET qf == SetQuantityAndFlag(ScaleToWire(quantity), flag)
    IN  [price |-> ScaleToWire(price), qty |-> qf.qty, flag |-> qf.flag]

(***************************************************************************)
(* Packet builder (packet_builder.rs)                                      *)
(***************************************************************************)
\* a sort that puts elements of equal key in reverse order
SortTiesReversed(keyed) ==
    LET n == Len(keyed)
        place == [i \in 1..n |->
                    1 + Cardinality({j \in 1..n :
                            \/ keyed[j].k < keyed[i].k
                            \/ keyed[j].k = keyed[i].k /\ j > i})]
    IN  [p \in 1..n |-> keyed[CHOOSE i \in 1..n : place[i] = p]]

\* slice::sort_by is a stable sort; keyed is a sequence of [k, v].  The
\* result is ordered by ascending k, elements of equal k keeping their order:
\* the place of an element is one more than the number of elements that
\* compare less, or compare equal and stand before it
StableSort(keyed) ==
    LET n == Len(keyed)
        place == [i \in 1..n |->
                    1 + Cardinality({j \in 1..n :
                            \/ keyed[j].k < keyed[i].k
                            \/ keyed[j].k = keyed[i].k /\ j < i})]
    IN  [p \in 1..n |-> keyed[CHOOSE i \in 1..n : place[i] = p]]

Values(keyed) == [i \in 1..Len(keyed) |-> keyed[i].v]

\* slice::chunks(k)
RECURSIVE Chunks(_, _)
Chunks(items, k) ==
    IF items = <<>> THEN <<>>
    ELSE <<SubSeq(items, 1, Min(k, Len(items)))>>
         \o Chunks(SubSeq(items, Min(k, Len(items)) + 1, Len(items)), k)

\* an order-book builder that drops negative quantities only: a level of
\* quantity 0 is serialized
OrderBookItemsKeepingZero(ob) ==
    LET bids == Values(StableSort([i \in 1..Len(ob.bids) |->
                    [k |-> -ob.bids[i].price, v |-> ob.bids[i]]]))
        asks == Values(StableSort([i \in 1..Len(ob.asks) |->
                    [k |-> ob.asks[i].price, v |-> ob.asks[i]]]))
        Live(l) == l.quantity >= 0
        kb == SelectSeq(bids, Live)
        ka == SelectSeq(asks, Live)
    IN  [i \in 1..Len(kb) |-> ItemNew(kb[i].price, kb[i].quantity, FALSE)]
        \o [i \in 1..Len(ka) |-> ItemNew(ka[i].price, ka[i].quantity, TRUE)]

\* build_order_book_packets, lines 186-206: bids by descending price, asks
\* by ascending price, levels with quantity <= 0 left out, bids first
OrderBookItems(ob) ==
    LET bids == Values(StableSort([i \in 1..Len(ob.bids) |->
                    [k |-> -ob.bids[i].price, v |-> ob.bids[i]]]))
        asks == Values(StableSort([i \in 1..Len(ob.asks) |->
                    [k |-> ob.asks[i].price, v |-> ob.asks[i]]]))
        Live(l) == l.quantity > 0
        kb == SelectSeq(bids, Live)
        ka == SelectSeq(asks, Live)
    IN  [i \in 1..Len(kb) |-> ItemNew(kb[i].price, kb[i].quantity, FALSE)]
        \o [i \in 1..Len(ka) |-> ItemNew(ka[i].price, ka[i].quantity, TRUE)]

\* an order-book builder that splits by 50 as the single-trade path does
OrderBookChunksOfFifty(ob) == Chunks(OrderBookItems(ob), TradeChunk)

\* build_order_book_packets, line 215
OrderBookChunks(ob) == Chunks(OrderBookItems(ob), OrderBookChunk)

\* the stable sort_by of lines 94-101 and 148-155: buyer-taker trades first,
\* by ascending price, the others after them by descending price; trades that
\* compare equal keep their arrival order
SortTrades(trades) ==
    LET Taker(t) == t.is_buyer_taker
        Maker(t) == ~t.is_buyer_taker
        takers == SelectSeq(trades, Taker)
        makers == SelectSeq(trades, Maker)
    IN  Values(StableSort([i \in 1..Len(takers) |->
                        [k |-> takers[i].price, v |-> takers[i]]]))
        \o Values(StableSort([i \in 1..Len(makers) |->
                        [k |-> -makers[i].price, v |-> makers[i]]]))

\* TradeTickItem::new on every trade of a sorted list
TradeItems(trades) ==
    LET sorted == SortTrades(trades)
    IN  [i \in 1..Len(sorted) |->
            ItemNew(sorted[i].price, sorted[i].quantity,
                    sorted[i].is_buyer_taker)]

\* build_trade_batch_packets, line 158
TradeBatchChunks(trades) == Chunks(TradeItems(trades), TradeBatchChunk)

\* a group chunked as a batch is
TradeGroupChunksOfEighty(trades) == Chunks(TradeItems(trades), TradeBatchChunk)

\* build_trade_packets_batch, line 121, for the trades of one
\* (timestamp, symbol, exchange) group
TradeGroupChunks(trades) == Chunks(TradeItems(trades), TradeChunk)

\* create_packet / create_packet_from_flat: header bytes and payload bytes
PacketSize(n) == HeaderSize + ItemSize * n

\* the MTU guard of create_packet(_from_flat), lines 265 and 285
FitsMtu(n) == ~(PacketSize(n) > MaxPacketSize)

\* a fetch_add that leaves the counter where it was
FetchAddStuck(counter) == counter

\* sequence_counter.fetch_add(1, SeqCst): the value taken, the value left
FetchAddTaken(counter) == counter
FetchAddLeft(counter) == counter + 1

\* an is_last that marks the first chunk instead of the last one
IsFirstChunk(chunk_index, total_chunks) == chunk_index = 0

\* let is_last = chunk_index == total_chunks - 1 (lines 128, 167, 224)
IsLastChunk(chunk_index, total_chunks) == chunk_index = total_chunks - 1

\* one market-data datagram: setup_header, set_flags_and_count,
\* create_packet_from_flat for chunk chunk_index of total_chunks
DataPacket(s, seq, mt, chunk, chunk_index, total_chunks, msg) ==
    [s |-> s, seq |-> seq, mt |-> mt,
     fc |-> SetFlagsAndCount(IsLastChunk(chunk_index, total_chunks),
                             Len(chunk)),
     items |-> chunk, n |-> Len(chunk), size |-> PacketSize(Len(chunk)),
     idx |-> chunk_index, total |-> total_chunks, msg |-> msg, frame |-> 0,
     prev |-> 0, cur |-> 0, retry |-> 0, ts |-> 0]

\* the message type of a single-value record (wire format table)
SingleValueType(kind) ==
    CASE kind = "IndexPrice" -> MESSAGE_TYPE_INDEX_PRICE
      [] kind = "MarkPrice" -> MESSAGE_TYPE_MARK_PRICE
      [] kind = "FundingRate" -> MESSAGE_TYPE_FUNDING_RATE

\* the datagram of one single-value record: the common header fill with the
\* record's timestamp as exchange_timestamp, one 16-byte item, is_last set
SingleValuePacket(s, seq, record) ==
    [s |-> s, seq |-> seq, mt |-> SingleValueType(record.kind),
     fc |-> SetFlagsAndCount(TRUE, 1),
     items |-> <<>>, n |-> 1, size |-> PacketSize(1),
     idx |-> 0, total |-> 1, msg |-> seq, frame |-> 0,
     prev |-> 0, cur |-> 0, retry |-> 0, ts |-> record.timestamp]

\* build_event_packet_with_exchange for a ConnectionStatus event: one
\* 16-byte payload, set_flags_and_count(true, 1)
EventPacket(s, seq, previous_status, current_status, retry) ==
    [s |-> s, seq |-> seq, mt |-> MESSAGE_TYPE_CONNECTION_STATUS,
     fc |-> SetFlagsAndCount(TRUE, 1),
     items |-> <<>>, n |-> 1, size |-> PacketSize(1),
     idx |-> 0, total |-> 1, msg |-> seq, frame |-> 0,
     prev |-> previous_status, cur |-> current_status, retry |-> retry,
     ts |-> 0]

(***************************************************************************)
(* Frames and the normalizer (data_parser.rs), as far as the pipeline      *)
(* depends on them: the record kind and its trades or levels               *)
(***************************************************************************)
Level(p, q) == [price |-> p * FineScale, quantity |-> q * FineScale]

OneTrade == [price |-> 5 * FineScale, quantity |-> FineScale,
             is_buyer_taker |-> TRUE]

\* depthUpdate payloads: no level, a removed level only (quantity 0), one
\* level per side, and BigDepth levels per side
DepthInputs ==
    { [bids |-> <<>>, asks |-> <<>>],
      [bids |-> <<Level(3, 0)>>, asks |-> <<>>],
      [bids |-> <<Level(3, 1)>>, asks |-> <<Level(4, 1)>>],
      [bids |-> [i \in 1..BigDepth |-> Level(i, 1)],
       asks |-> [i \in 1..BigDepth |-> Level(BigDepth + i, 1)]] }

NoDepth == [bids |-> <<>>, asks |-> <<>>]

\* a text or binary frame: json says whether the payload is well-formed JSON,
\* e is its event type ("none" when the "e" field is missing), complete says
\* whether every field the event's struct requires is there and parses, ob
\* holds the levels of a depthUpdate
Frame(json, e, complete, ob) ==
    [json |-> json, e |-> e, complete |-> complete, ob |-> ob]

Frames ==
    { Frame(FALSE, "none", FALSE, NoDepth) }
    \cup { Frame(TRUE, e, FALSE, NoDepth) :
              e \in {"none", "kline", "trade", "aggTrade", "depthUpdate"} }
    \cup { Frame(TRUE, e, TRUE, NoDepth) : e \in {"trade", "aggTrade"} }
    \cup { Frame(TRUE, "depthUpdate", TRUE, ob) : ob \in DepthInputs }

\* a parser that fills the fields a payload lacks with defaults
ParseWithDefaults(frame) ==
    CASE ~frame.json -> [ok |-> FALSE]
      [] frame.e = "trade" ->
            [ok |-> TRUE, kind |-> "Trade", trades |-> <<OneTrade>>]
      [] frame.e = "aggTrade" ->
            [ok |-> TRUE, kind |-> "TradeBatch", trades |-> <<OneTrade>>]
      [] frame.e = "depthUpdate" ->
            [ok |-> TRUE, kind |-> "OrderBook", ob |-> frame.ob]
      [] OTHER -> [ok |-> FALSE]

\* parse_message for a Binance session, parse_binance_message lines 200-286:
\* malformed JSON (202-207), a missing event type (215-218), a struct that
\* does not deserialize or a number that does not parse (225-226, 263-264,
\* 270-271, 292-305, 319-322, 336-339) and an event type without an arm
\* (281-284) return Err
ParseMessage(frame) ==
    CASE ~frame.json -> [ok |-> FALSE]
      [] frame.e = "none" -> [ok |-> FALSE]
      [] frame.e = "trade" /\ frame.complete ->
            [ok |-> TRUE, kind |-> "Trade", trades |-> <<OneTrade>>]
      [] frame.e = "aggTrade" /\ frame.complete ->
            [ok |-> TRUE, kind |-> "TradeBatch", trades |-> <<OneTrade>>]
      [] frame.e = "depthUpdate" /\ frame.complete ->
            [ok |-> TRUE, kind |-> "OrderBook", ob |-> frame.ob]
      [] OTHER -> [ok |-> FALSE]

\* a numeric field of a Binance event, which the exchange sends as a string:
\* the key is absent, or its string does not parse as f64, or it does
FieldStates == {"absent", "garbage", "number"}

\* a level of the b / a arrays of a depthUpdate: [price, quantity]
LevelStates == {"garbage", "number"} \X {"garbage", "number"}

\* the b / a arrays: the key is absent, or the array has no level, one, or
\* two
LevelLists ==
    { [present |-> FALSE, levels |-> <<>>] }
    \cup { [present |-> TRUE, levels |-> ls] :
             ls \in {<<>>} \cup { <<l>> : l \in LevelStates }
                           \cup { <<l, m>> : l \in LevelStates,
                                             m \in LevelStates } }

\* the Binance events, by what the parser looks at: the event type, the
\* symbol, and the numeric fields of its price and quantity data
BinanceEvents ==
    { [kind |-> "event", e |-> e, s |-> s, p |-> p, q |-> q] :
         e \in {"trade", "aggTrade"}, s \in BOOLEAN,
         p \in FieldStates, q \in FieldStates }
    \cup { [kind |-> "event", e |-> "depthUpdate", s |-> s, b |-> b, a |-> a] :
         s \in BOOLEAN,
         b \in LevelLists, a \in LevelLists }
    \cup { [kind |-> "event", e |-> "markPriceUpdate", s |-> s, p |-> p,
            i |-> i, r |-> r] :
         s \in BOOLEAN, p \in FieldStates, i \in FieldStates,
         r \in FieldStates }
    \cup { [kind |-> "event", e |-> "forceOrder", o |-> o, s |-> s,
            ap |-> ap, p |-> p, q |-> q] :
         o \in BOOLEAN, s \in BOOLEAN, ap \in FieldStates,
         p \in FieldStates, q \in FieldStates }

\* the forceOrder arm, lines 248-261: o and s are required (?); the price is
\* ap, or p when ap is absent, or "0" when both are (unwrap_or("0")), the
\* quantity is q or "0"; a string that does not parse gives 0.0
\* (unwrap_or(0.0))
ForceOrder(ev) ==
    LET price == IF ev.ap # "absent" THEN ev.ap ELSE ev.p
        Value(field) == IF field = "number" THEN "parsed" ELSE "zero"
    IN  IF ev.o /\ ev.s
        THEN [ok |-> TRUE, kind |-> "Liquidation", price |-> Value(price),
              quantity |-> Value(ev.q)]
        ELSE [ok |-> FALSE]

\* parse_binance_message, lines 220-285, on an event of well-formed JSON:
\* serde fails the trade, aggTrade and depthUpdate structs on a missing
\* field (225, 263, 269), the convert_ functions fail on a string that does
\* not parse (292-305, 319-322, 336-339), the markPriceUpdate arm requires
\* s, p, i, r and parses the three numbers (232-241)
parse_binance_message(ev) ==
    CASE ev.e \in {"trade", "aggTrade"} ->
            IF ev.s /\ ev.p = "number" /\ ev.q = "number"
            THEN [ok |-> TRUE,
                  kind |-> IF ev.e = "trade" THEN "Trade" ELSE "TradeBatch"]
            ELSE [ok |-> FALSE]
      [] ev.e = "depthUpdate" ->
            IF /\ ev.s
               /\ ev.b.present
               /\ ev.a.present
               /\ \A n \in 1..Len(ev.b.levels) :
                     ev.b.levels[n] = <<"number", "number">>
               /\ \A n \in 1..Len(ev.a.levels) :
                     ev.a.levels[n] = <<"number", "number">>
            THEN [ok |-> TRUE, kind |-> "OrderBook"]
            ELSE [ok |-> FALSE]
      [] ev.e = "markPriceUpdate" ->
            IF ev.s /\ ev.p = "number" /\ ev.i = "number" /\ ev.r = "number"
            THEN [ok |-> TRUE, kind |-> "Multi"]
            ELSE [ok |-> FALSE]
      [] ev.e = "forceOrder" -> ForceOrder(ev)
      [] OTHER -> [ok |-> FALSE]

\* the event times (E, in milliseconds) of the markPriceUpdate frames
MarkTimes == {1700, 1701}

\* the markPriceUpdate frames of a mark-price stream: complete says whether
\* s, p, i and r are there and the three numbers parse
MarkFrames ==
    { [json |-> TRUE, e |-> "markPriceUpdate", complete |-> c, E |-> E] :
         c \in BOOLEAN, E \in MarkTimes }

\* the markPriceUpdate arm of parse_binance_message, lines 231-247: a Multi
\* of IndexPrice, MarkPrice and FundingRate, each with timestamp
\* E * 1_000_000
ParseMark(frame) ==
    IF frame.complete
    THEN [ok |-> TRUE, kind |-> "Multi",
          items |-> [n \in 1..3 |->
                        [kind |-> <<"IndexPrice", "MarkPrice",
                                    "FundingRate">>[n],
                         timestamp |-> frame.E * 1000000]]]
    ELSE [ok |-> FALSE]

\* the venue tags the per-venue parsers put into their records
\* (normalize_exchange_name for Binance, parse_default_message)
VenueHints == {"BinanceSpot", "BinanceFutures", "Unknown"}

\* the display names the sessions are configured with, each with a parser
\* registered under it (new_with_config, lines 130-153)
Venues == {"binance", "BinanceSpot", "BinanceFutures"}

RecordKinds ==
    {"Trade", "OrderBook", "IndexPrice", "MarkPrice", "FundingRate",
     "Liquidation"}

\* a record as a per-venue parser returns it: its kind and its venue tag; a
\* TradeBatch also holds its trades, each with a venue tag of its own
PlainRecords ==
    [kind : RecordKinds, exchange : VenueHints]
    \cup { [kind |-> "TradeBatch", exchange |-> h, trades |-> <<h>>] :
              h \in VenueHints }

SeqsUpTo(S, n) == UNION { [1..k -> S] : k \in 0..n }

\* a Multi inside a Multi
InnerMulti ==
    { [kind |-> "Multi", items |-> items] :
        items \in SeqsUpTo([kind : {"MarkPrice"}, exchange : VenueHints], 1) }

ParsedRecords ==
    PlainRecords
    \cup { [kind |-> "Multi", items |-> items] :
              items \in SeqsUpTo(PlainRecords \cup InnerMulti, MaxMulti) }

\* an adjustment that leaves the elements of a Multi as the parser tagged
\* them
AdjustedOutside(exchange, parsed) ==
    IF parsed.kind = "Multi" THEN parsed
    ELSE [parsed EXCEPT !.exchange = exchange]

\* parse_message, lines 174-195: the venue of the record is replaced by the
\* session's display name; in a Multi every element is adjusted, an element
\* that is itself a Multi becomes an empty Multi
Adjusted(exchange, parsed) ==
    IF parsed.kind = "Multi"
    THEN [kind |-> "Multi",
          items |-> [i \in 1..Len(parsed.items) |->
                        IF parsed.items[i].kind = "Multi"
                        THEN [kind |-> "Multi", items |-> <<>>]
                        ELSE [parsed.items[i] EXCEPT !.exchange = exchange]]]
    ELSE [parsed EXCEPT !.exchange = exchange]

\* parse_message, lines 164-197, given what the per-venue parser returns:
\* a venue without a registered parser is an Err (lines 167-170)
parse_message(exchange, parsed) ==
    IF exchange \notin Venues THEN [ok |-> FALSE]
    ELSE [ok |-> TRUE, record |-> Adjusted(exchange, parsed)]

\* strings are sequences of characters
LowerCase ==
    <<"a", "b", "c", "d", "e", "f", "g", "h", "i", "j", "k", "l", "m",
      "n", "o", "p", "q", "r", "s", "t", "u", "v", "w", "x", "y", "z">>

UpperCase ==
    <<"A", "B", "C", "D", "E", "F", "G", "H", "I", "J", "K", "L", "M",
      "N", "O", "P", "Q", "R", "S", "T", "U", "V", "W", "X", "Y", "Z">>

\* str::to_uppercase on the characters of the model
ToUpper(c) ==
    IF \E i \in 1..Len(LowerCase) : LowerCase[i] = c
    THEN UpperCase[CHOOSE i \in 1..Len(LowerCase) : LowerCase[i] = c]
    ELSE c

to_uppercase(s) == [i \in 1..Len(s) |-> ToUpper(s[i])]

\* str::ends_with
ends_with(s, suffix) ==
    /\ Len(s) >= Len(suffix)
    /\ SubSeq(s, Len(s) - Len(suffix) + 1, Len(s)) = suffix

\* the quote currencies of normalize_binance_symbol in the order of its
\* tests, lines 383-400
QuoteCurrencies ==
    << <<"U", "S", "D", "T">>, <<"U", "S", "D", "C">>, <<"B", "U", "S", "D">>,
       <<"B", "T", "C">>, <<"E", "T", "H">>, <<"B", "N", "B">> >>

\* normalize_binance_symbol, lines 379-404: the upper-cased symbol with a
\* caret before the first quote currency it ends with; a symbol that ends
\* with none of them is returned as it came
normalize_binance_symbol(symbol) ==
    LET upper_symbol == to_uppercase(symbol)
        hits == {q \in 1..Len(QuoteCurrencies) :
                    ends_with(upper_symbol, QuoteCurrencies[q])}
    IN  IF hits = {} THEN symbol
        ELSE LET quote == QuoteCurrencies[CHOOSE q \in hits :
                                            \A r \in hits : q <= r]
                 base == SubSeq(upper_symbol, 1,
                                Len(upper_symbol) - Len(quote))
             IN  base \o <<"^">> \o quote

\* symbols as the exchange sends them and as the tests give them
NamedSymbols ==
    { <<"B", "T", "C", "U", "S", "D", "T">>,
      <<"E", "T", "H", "U", "S", "D", "T">>,
      <<"A", "D", "A", "B", "T", "C">>,
      <<"b", "t", "c", "u", "s", "d", "t">>,
      <<"E", "T", "H", "U", "S", "D", "C">>,
      <<"B", "N", "B", "B", "U", "S", "D">>,
      <<"S", "O", "L", "E", "T", "H">>,
      <<"A", "D", "A", "B", "N", "B">>,
      <<"B", "T", "C", "-", "P", "E", "R", "P">> }

SymbolChars == {"B", "T", "C", "b", "^", "X"}

SymbolInputs == NamedSymbols \cup SeqsUpTo(SymbolChars, MaxSymbol)

Digits == <<"0", "1", "2", "3", "4", "5", "6", "7", "8", "9">>

\* char::is_ascii_alphanumeric
is_ascii_alphanumeric(c) ==
    \/ \E i \in 1..Len(UpperCase) : UpperCase[i] = c
    \/ \E i \in 1..Len(LowerCase) : LowerCase[i] = c
    \/ \E i \in 1..Len(Digits) : Digits[i] = c

\* char::is_whitespace on the characters of the model
is_whitespace(c) == c = " "

\* str::trim: leading and trailing whitespace removed
RECURSIVE trim(_)
trim(s) ==
    IF s = <<>> THEN s
    ELSE IF is_whitespace(Head(s)) THEN trim(Tail(s))
    ELSE IF is_whitespace(s[Len(s)]) THEN trim(SubSeq(s, 1, Len(s) - 1))
    ELSE s

\* the zero byte of a header field
NUL == "NUL"

\* a setter that fills all 20 bytes of the field
set_symbol_unterminated(symbol) ==
    LET Kept(c) == is_ascii_alphanumeric(c) \/ c = "^" \/ c = "-" \/ c = "_"
        sanitized == SelectSeq(trim(symbol), Kept)
        len == Min(Len(sanitized), FieldSize)
    IN  [i \in 1..FieldSize |-> IF i <= len THEN sanitized[i] ELSE NUL]

\* PacketHeader::set_symbol, lines 100-112: the field is zeroed, the text is
\* trimmed and filtered, and at most 19 bytes of it are copied in
set_symbol(symbol) ==
    LET Kept(c) == is_ascii_alphanumeric(c) \/ c = "^" \/ c = "-" \/ c = "_"
        sanitized == SelectSeq(trim(symbol), Kept)
        len == Min(Len(sanitized), MaxFieldText)
    IN  [i \in 1..FieldSize |-> IF i <= len THEN sanitized[i] ELSE NUL]

\* PacketHeader::set_exchange, lines 115-126
set_exchange(exchange) ==
    LET Kept(c) == is_ascii_alphanumeric(c) \/ c = "^" \/ c = "-" \/ c = "_"
        sanitized == SelectSeq(trim(exchange), Kept)
        len == Min(Len(sanitized), MaxFieldText)
    IN  [i \in 1..FieldSize |-> IF i <= len THEN sanitized[i] ELSE NUL]

\* characters of the texts: letters, a digit, the three signs that are
\* kept, a blank, a slash, a dot and a non-ASCII letter
TextChars == {"A", "z", "9", "^", "-", "_", " ", "/", ".", "é"}

\* the text of n characters that repeats pattern
Cycle(pattern, n) == [i \in 1..n |-> pattern[((i - 1) % Len(pattern)) + 1]]

\* texts of every length up to MaxText, built from every pattern of one or
\* two characters, with or without a blank in front and at the end
TextInputs ==
    { lead \o Cycle(pattern, n) \o trail :
        pattern \in SeqsUpTo(TextChars, 2) \ {<<>>}, n \in 0..MaxText,
        lead \in {<<>>, <<" ">>}, trail \in {<<>>, <<" ">>} }

\* build_packets, lines 34-40: the chunks of the record, in emission order
RecordChunks(parsed) ==
    CASE parsed.kind = "Trade" -> TradeGroupChunks(parsed.trades)
      [] parsed.kind = "TradeBatch" -> TradeBatchChunks(parsed.trades)
      [] parsed.kind = "OrderBook" -> OrderBookChunks(parsed.ob)

\* the paths that assemble the payload in a buffer of the pool:
\* build_order_book_packets (line 228) and build_trade_batch_packets (170)
Pooled(parsed) == parsed.kind \in {"OrderBook", "TradeBatch"}

RecordType(parsed) ==
    IF parsed.kind = "OrderBook" THEN MESSAGE_TYPE_ORDER_BOOK
    ELSE MESSAGE_TYPE_TRADE_TICK

\* process_message, lines 215-219, for each frame: the record is parsed,
\* sorted and chunked before the first sequence number is taken
FrameBuild ==
    [frame \in Frames |->
        LET parsed == ParseMessage(frame)
            chunks == IF parsed.ok THEN RecordChunks(parsed) ELSE <<>>
        IN  IF chunks = <<>>
            THEN [mt |-> 0, total |-> 0, chunks |-> <<>>, frame |-> 0,
                  pooled |-> FALSE]
            ELSE [mt |-> RecordType(parsed), total |-> Len(chunks),
                  chunks |-> chunks, frame |-> 0,
                  pooled |-> Pooled(parsed)]]

\* build_packets called on a record with the counter at a given value: the
\* chunk loop takes one sequence number per datagram; an MTU error returns Err
\* with the sequence numbers taken so far spent
RECURSIVE BuildLoop(_, _, _, _, _, _)
BuildLoop(done, taken, counter, mt, chunks, total) ==
    IF chunks = <<>>
    THEN [ok |-> TRUE, packets |-> done, taken |-> taken, counter |-> counter]
    ELSE LET seq == FetchAddTaken(counter)
             msg == IF done = <<>> THEN seq ELSE done[1].msg
             p == DataPacket(0, seq, mt, Head(chunks), total - Len(chunks),
                             total, msg)
         IN  IF FitsMtu(Len(Head(chunks)))
             THEN BuildLoop(Append(done, p), Append(taken, seq),
                            FetchAddLeft(counter), mt, Tail(chunks), total)
             ELSE [ok |-> FALSE, packets |-> <<>>,
                   taken |-> Append(taken, seq),
                   counter |-> FetchAddLeft(counter)]

build_packets(parsed, counter) ==
    LET chunks == RecordChunks(parsed)
    IN  BuildLoop(<<>>, <<>>, counter, RecordType(parsed), chunks, Len(chunks))

\* records handed to build_packets directly: level and trade counts around
\* the chunk sizes, prices in ascending or descending arrival order, removed
\* levels (quantity 0) in front
SideSizes == {0, 1, MaxLevels \div 2, MaxLevels - 1, MaxLevels}

Side(n, base, ascending, dead) ==
    [i \in 1..dead |-> Level(base, 0)]
    \o [i \in 1..n |-> Level(base + (IF ascending THEN i ELSE n + 1 - i), 1)]

BookInputs ==
    { [kind |-> "OrderBook",
       ob |-> [bids |-> Side(nb, 0, asc, dead),
               asks |-> Side(na, 2 * MaxLevels, asc, dead)]] :
        nb \in SideSizes, na \in SideSizes, asc \in BOOLEAN, dead \in {0, 1} }

\* books with a level whose quantity is positive and below 10^-8, the
\* resolution of the wire: "0.000000005" parses to a positive f64
DustLevel(p) == [price |-> p * FineScale, quantity |-> FineScale \div 2]

DustInputs ==
    { [kind |-> "OrderBook",
       ob |-> [bids |-> <<DustLevel(1)>> \o Side(n, 1, FALSE, 0),
               asks |-> Side(n, 2 * MaxLevels, TRUE, 0)]] : n \in {0, 1} }

\* a depthUpdate of ManyBids bids and ManyAsks asks, none of them removed,
\* prices in arrival order as the exchange sends them or against it
ManyInputs ==
    { [kind |-> "OrderBook",
       ob |-> [bids |-> Side(ManyBids, 0, asc, 0),
               asks |-> Side(ManyAsks, ManyBids, asc, 0)]] :
        asc \in BOOLEAN }

\* trades of one exchange message: side is "taker", "maker" or "mixed"
TradeList(n, ascending, side) ==
    [i \in 1..n |->
        [price |-> (IF ascending THEN i ELSE n + 1 - i) * FineScale,
         quantity |-> FineScale,
         is_buyer_taker |-> (side = "taker" \/ (side = "mixed" /\ i % 2 = 0))]]

TradeInputs ==
    { [kind |-> k, trades |-> TradeList(n, asc, side)] :
        k \in {"Trade", "TradeBatch"}, n \in SideSizes, asc \in BOOLEAN,
        side \in {"taker", "maker", "mixed"} }

\* trades that share prices: three prices in turn, the quantity of the i-th
\* trade to arrive is i
TiedTrades(n, side) ==
    [i \in 1..n |->
        [price |-> (1 + (i % 3)) * FineScale,
         quantity |-> i * FineScale,
         is_buyer_taker |-> (side = "taker" \/ (side = "mixed" /\ i % 2 = 0))]]

TiedSizes == {2, 7, MaxLevels}

TiedInputs ==
    { [kind |-> k, trades |-> TiedTrades(n, side)] :
        k \in {"Trade", "TradeBatch"}, n \in TiedSizes,
        side \in {"taker", "maker", "mixed"} }

BuildInputs ==
    BookInputs \cup DustInputs \cup ManyInputs \cup TradeInputs \cup TiedInputs

(***************************************************************************)
(* Multicast emitter (udp_broadcaster.rs)                                  *)
(***************************************************************************)
NoStats == [packets_sent |-> 0, bytes_sent |-> 0]

CountSent(st, size) ==
    [packets_sent |-> st.packets_sent + 1, bytes_sent |-> st.bytes_sent + size]

\* a send_packet that counts the datagram the socket would not take
send_packet_counting_dropped(st, size, res) ==
    [ret |-> IF res = "err" THEN "Err" ELSE "Ok",
     stats |-> IF res = "err" THEN st ELSE CountSent(st, size)]

\* a send_packet that counts the datagram whose send failed
send_packet_counting_failed(st, size, res) ==
    [ret |-> IF res = "err" THEN "Err" ELSE "Ok",
     stats |-> IF res = "wouldblock" THEN st ELSE CountSent(st, size)]

\* a send_packet that logs a failed send and returns Ok
send_packet_ignoring_errors(st, size, res) ==
    [ret |-> "Ok",
     stats |-> IF res = "ok" THEN CountSent(st, size) ELSE st]

\* UdpMulticaster::send_packet, lines 92-116, on a datagram of size bytes
\* when the socket send gives res: Ok(n) counts the datagram and returns Ok,
\* WouldBlock returns Ok and counts nothing, any other error returns Err
send_packet(st, size, res) ==
    [ret |-> IF res = "err" THEN "Err" ELSE "Ok",
     stats |-> IF res = "ok" THEN CountSent(st, size) ELSE st]

\* config.port, the port of target_addr (line 38)
TargetPort == 1

Ports == 1..MaxPorts

\* UdpMulticaster::new, lines 54-77: connected is what socket.connect gave,
\* sockets_by_port is empty
NewSockets(connected) ==
    [primary |-> [connected |-> connected],
     by_port |-> [port \in Ports |-> [open |-> FALSE, connected |-> FALSE]]]

\* no send made yet
NoSend == [port |-> 0, path |-> "none", connected |-> FALSE, ret |-> "none",
           returned |-> 0]

\* send_packet, lines 86-90: socket.send on the connected socket, send_to
\* target_addr on the other
PrimaryPath(connected) == IF connected THEN "send" ELSE "send_to"

\* send_packet_to_port, line 157: sock.send whatever connect gave
PortPath(connected) == "send"

\* what a socket can answer to a send of size bytes on a path: a send
\* without destination on a socket that is not connected fails
\* (EDESTADDRREQ / WSAENOTCONN); otherwise the datagram is taken, whole or
\* in part, or WOULDBLOCK, or another error
SocketAnswers(path, connected, size) ==
    IF path = "send" /\ ~connected
    THEN { [res |-> "err", n |-> 0] }
    ELSE { [res |-> "ok", n |-> n] : n \in {size - 1, size} }
         \cup { [res |-> r, n |-> 0] : r \in {"wouldblock", "err"} }

\* the sizes of the datagrams handed to the emitter on its own
SendSizes == {PacketSize(1), PacketSize(2)}

\* the two AtomicU64 of UdpMulticaster, lines 23-24
StatFields == {"packets_sent", "bytes_sent"}

\* no send_packet between its socket send and its counter updates, no
\* get_stats in progress
NoCalls ==
    [log |-> <<>>,
     owed |-> [s \in Sessions |-> [adds |-> {}, n |-> 0]],
     loads |-> {},
     seen |-> NoStats]

\* PayloadPool::with_capacity(1024, 1400), lines 314-321: pool_size and the
\* buffers allocated up front, pool_size.min(64)
PoolSize == 1024
PoolPrealloc == 64

\* acquire_buffer, lines 324-334: pops a buffer when the queue has one and
\* allocates a fresh one when it is empty
acquire_buffer(queue) == IF queue > 0 THEN queue - 1 ELSE queue

\* release_buffer, lines 337-340: pushes the buffer back unless the queue is
\* full
release_buffer(queue) == IF queue < PoolSize THEN queue + 1 ELSE queue

(***************************************************************************)
(* Session supervisor (connection_manager.rs)                              *)
(***************************************************************************)
\* calculate_backoff_delay, lines 229-242, in milliseconds
RECURSIVE Pow2(_)
Pow2(n) == IF n = 0 THEN 1 ELSE 2 * Pow2(n - 1)

\* a backoff that doubles up to 2^6 seconds without the cap of max_delay
calculate_backoff_delay_uncapped(retry) ==
    IF retry = 0 THEN 1000
    ELSE 1000 * Pow2(Min(retry, 6))

\* a schedule whose doubling stops one step early, at 32 seconds
calculate_backoff_delay_capped_early(retry) ==
    IF retry = 0 THEN 1000
    ELSE Min(1000 * Pow2(Min(retry, 5)), 60000)

calculate_backoff_delay(retry) ==
    IF retry = 0 THEN 1000
    ELSE Min(1000 * Pow2(Min(retry, 6)), 60000)

\* what connect_to_symbol_session returns to manage_symbol_session: every
\* return of the function is an Err (lines 301, 318, 328, 360, 373, 379),
\* also after a handshake that succeeded
ConnectResult(handshake_ok) == "Err"


VARIABLES
    sequence_counter,   \* PacketBuilder.sequence_counter
    pc,                 \* position of each session task
    retry_count,        \* manage_symbol_session's retry_count
    todo,               \* build_packets: chunks not yet built
    packets,            \* datagrams built and not yet handed to the socket
    after,              \* where the task goes on once its event is sent
    delay,              \* the backoff sleep in progress, in milliseconds
    frames_left,        \* per session: frames its exchange still delivers
    connects_left,      \* per session: handshakes its exchange still accepts
    arrived,            \* per session: one entry per text/binary frame read
                        \* so far; where "frames" is tracked the entry says
                        \* whether the frame parsed
    stats,              \* UdpMulticaster: packets_sent and bytes_sent
    run_joined,         \* ConnectionManager::run: handles awaited so far
    run_returned,       \* ConnectionManager::run has returned
    input,              \* the record of a direct call of build_packets
    output,             \* what the direct call returned
    established,        \* per session: the handshake of the attempt succeeded
    observe,            \* what is tracked: "emitted", "history", "stats",
                        \* "frames", and "horizon" where the trace is cut
                        \* at MaxSeq
    built,              \* sequence numbers taken, in the order of the takes
    emitted,            \* datagrams in the order they reach the socket
    events,             \* per session: its ConnectionStatus events sent
    handshakes,         \* per session: the outcome of each handshake so far
    sockets,            \* UdpMulticaster: connected of the primary socket and
                        \* the sockets of sockets_by_port
    sent,               \* the last call of send_packet / send_packet_to_port:
                        \* its socket, the path of the send and its result
    pool,               \* PayloadPool.queue: the buffers it holds
    calls,              \* UdpMulticaster seen one memory access at a time:
                        \* the datagrams the socket took, the counter
                        \* updates each sender still owes, and the loads of
                        \* the get_stats in progress
    process             \* main: whether the process has ended, its exit
                        \* code and what ended it

vars == <<sequence_counter, pc, retry_count, todo, packets, after, delay,
          frames_left, connects_left, arrived, stats, run_joined,
          run_returned, input, output, established, observe, built, emitted,
          events, handshakes, sockets, sent, pool, calls, process>>

taskVars == <<pc, retry_count, todo, packets, after, delay, established>>
envVars == <<frames_left, connects_left, arrived>>
runVars == <<run_joined, run_returned, process>>
callVars == <<input, output>>
sendObs == <<emitted, events>>
emitterVars == <<sockets, sent, calls>>

\* no record being built
NoBuild == [mt |-> 0, total |-> 0, chunks |-> <<>>, frame |-> 0,
            pooled |-> FALSE]

\* main has not returned
Running == [exited |-> FALSE, code |-> 0, cause |-> "none"]

NoInput == [kind |-> "none"]
NoOutput == [called |-> FALSE]

\* the state after PacketBuilder::new and after ConnectionManager::run has
\* spawned one task per configured session; the exchange of session s accepts
\* accepts[s] handshakes and delivers feed[s] frames
InitLinked(configured, accepts, feed, recorded) ==
    /\ sequence_counter = InitialSequence
    /\ pc = [s \in Sessions |->
                IF s \in configured THEN "attempt" ELSE "absent"]
    /\ retry_count = [s \in Sessions |-> 0]
    /\ todo = [s \in Sessions |-> NoBuild]
    /\ packets = [s \in Sessions |-> <<>>]
    /\ after = [s \in Sessions |-> "attempt"]
    /\ delay = [s \in Sessions |-> 0]
    /\ frames_left = feed
    /\ arrived = [s \in Sessions |-> <<>>]
    /\ stats = NoStats
    /\ connects_left = accepts
    /\ run_joined = 0
    /\ run_returned = FALSE
    /\ output = NoOutput
    /\ established = [s \in Sessions |-> FALSE]
    /\ observe = recorded
    /\ built = <<>>
    /\ emitted = <<>>
    /\ events = [s \in Sessions |-> <<>>]
    /\ handshakes = [s \in Sessions |-> <<>>]
    /\ sockets \in { NewSockets(connected) :
                        connected \in IF "sockets" \in recorded
                                      THEN BOOLEAN ELSE {TRUE} }
    /\ sent = NoSend
    /\ calls = NoCalls
    /\ pool = PoolPrealloc
    /\ process = Running

\* the exchanges of the sessions in reachable accept MaxConnects handshakes
InitFed(configured, reachable, feed, recorded) ==
    InitLinked(configured,
               [s \in Sessions |-> IF s \in reachable THEN MaxConnects ELSE 0],
               feed, recorded)

\* the exchanges of the sessions in fed deliver MaxFrames frames each
InitWith(configured, reachable, fed, recorded) ==
    InitFed(configured, reachable,
            [s \in Sessions |-> IF s \in fed THEN MaxFrames ELSE 0], recorded)

\* two sessions, the emission trace and the histories recorded
Init ==
    /\ InitWith(Sessions, Sessions, Sessions,
                {"emitted", "history", "horizon"})
    /\ input = NoInput

\* one session configured, its histories recorded
InitSolo == InitWith({1}, {1}, {1}, {"history"}) /\ input = NoInput

\* two sessions: the exchange of the first one accepts handshakes and stays
\* silent, the exchange of the second one is unreachable
InitLife == InitWith(Sessions, {1}, {}, {}) /\ input = NoInput

\* one session and its feed: the emission trace and the statistics of the
\* emitter
InitFeed ==
    /\ InitFed({1}, {1}, [s \in Sessions |-> IF s = 1 THEN FeedFrames ELSE 0],
               {"emitted", "stats", "frames", "horizon"})
    /\ input = NoInput

\* one session whose exchange accepts one handshake, sends no market data and
\* is unreachable afterwards
InitMain ==
    /\ InitLinked({1}, [s \in Sessions |-> IF s = 1 THEN 1 ELSE 0],
                  [s \in Sessions |-> 0], {})
    /\ input = NoInput

\* one session and its feed: the buffer pool of the builder
InitPool ==
    /\ InitFed({1}, {1}, [s \in Sessions |-> IF s = 1 THEN FeedFrames ELSE 0],
               {"pool", "horizon"})
    /\ input = NoInput

\* a DataParser about to be called for a session with what its per-venue
\* parser makes of the frame
InitParse ==
    /\ InitWith({}, {}, {}, {})
    /\ input \in { [kind |-> "frame", exchange |-> v, parsed |-> r] :
                      v \in Venues \cup {"Kraken"}, r \in ParsedRecords }

\* normalize_binance_symbol about to be called on a symbol
InitSymbol ==
    /\ InitWith({}, {}, {}, {})
    /\ input \in { [kind |-> "symbol", symbol |-> s] : s \in SymbolInputs }

\* a PacketHeader about to have its symbol or its exchange set
InitHeader ==
    /\ InitWith({}, {}, {}, {})
    /\ input \in { [kind |-> "text", field |-> f, text |-> s] :
                      f \in {"symbol", "exchange"}, s \in TextInputs }

\* calculate_backoff_delay about to be called with a retry number
InitBackoff ==
    /\ InitWith({}, {}, {}, {})
    /\ input \in { [kind |-> "retry", retry |-> k] : k \in 0..MaxRetryArg }

\* two sessions: the first one on a mark-price stream, the exchange of the
\* second one sends nothing
InitMark ==
    /\ InitFed(Sessions, Sessions,
               [s \in Sessions |-> IF s = 1 THEN MaxFrames ELSE 0],
               {"emitted", "marks"})
    /\ input = NoInput

\* parse_binance_message about to be called on an event
InitBinance ==
    /\ InitWith({}, {}, {}, {})
    /\ input \in BinanceEvents

\* one session whose exchange accepts as many handshakes as the supervisor
\* makes attempts and sends no market data
InitClose ==
    /\ InitLinked({1}, [s \in Sessions |-> IF s = 1 THEN MAX_RETRY_COUNT ELSE 0],
                  [s \in Sessions |-> 0], {"history"})
    /\ input = NoInput

\* a UdpMulticaster on its own, whatever its connect gave
InitEmitter ==
    /\ InitFed({}, {}, [s \in Sessions |-> 0], {"stats", "sockets"})
    /\ input = NoInput

\* a UdpMulticaster whose connect succeeded, shared by the session tasks and
\* the metrics task
InitStats ==
    /\ InitFed({}, {}, [s \in Sessions |-> 0], {"snapshots"})
    /\ input = NoInput

\* a PacketBuilder on its own, about to be handed one record
InitBuild == InitWith({}, {}, {}, {}) /\ input \in BuildInputs

\* the observation horizon of the recorded trace
CanBuild ==
    /\ "horizon" \in observe => Len(built) < MaxSeq
    /\ "marks" \in observe => Len(built) < MarkSeq

\* PacketBuilder::get_sequence_number
get_sequence_number == sequence_counter

\* build_event_packet_with_exchange inside send_connection_event
BuildEvent(s, previous_status, current_status, retry, then) ==
    /\ CanBuild
    /\ packets' = [packets EXCEPT ![s] =
            <<EventPacket(s, FetchAddTaken(sequence_counter),
                          previous_status, current_status, retry)>>]
    /\ built' = Append(built, FetchAddTaken(sequence_counter))
    /\ sequence_counter' = FetchAddLeft(sequence_counter)
    /\ after' = [after EXCEPT ![s] = then]
    /\ pc' = [pc EXCEPT ![s] = "send_event"]

\* the trace entry of a datagram handed to the socket: its header, its size
\* and the bookkeeping of the build (chunk index, chunk total, the sequence
\* number of the first datagram of its logical message)
TraceEntry(p) ==
    [s |-> p.s, seq |-> p.seq, mt |-> p.mt, fc |-> p.fc, n |-> p.n,
     size |-> p.size, idx |-> p.idx, total |-> p.total, msg |-> p.msg,
     frame |-> p.frame, prev |-> p.prev, cur |-> p.cur, retry |-> p.retry,
     ts |-> p.ts]

\* what the socket send does to the observers
Handed(p) ==
    /\ emitted' = IF "emitted" \in observe
                  THEN Append(emitted, TraceEntry(p))
                  ELSE emitted
    /\ events' = IF /\ "history" \in observe
                    /\ p.mt = MESSAGE_TYPE_CONNECTION_STATUS
                 THEN [events EXCEPT ![p.s] =
                          Append(@, <<p.prev, p.cur, p.retry>>)]
                 ELSE events

\* a send loop that takes the datagram built last
NewestPacket(queue) == queue[Len(queue)]

\* process_message, line 221: for packet in packets hands the datagrams over
\* from the front of the vector build_packets returned
NextPacket(queue) == Head(queue)

\* what the socket send does to the statistics of the emitter
Counted(p, res) ==
    stats' = IF "stats" \in observe
             THEN send_packet(stats, p.size, res).stats
             ELSE stats

\* manage_symbol_session, lines 252-257: the top of the loop, the CONNECTING
\* event of the attempt
StartAttempt(s) ==
    /\ pc[s] = "attempt"
    /\ BuildEvent(s, CONNECTION_STATUS_DISCONNECTED,
                  CONNECTION_STATUS_CONNECTING, retry_count[s], "connect")
    /\ UNCHANGED <<retry_count, todo, delay, envVars, runVars, callVars,
                   established, observe, stats, sendObs, handshakes,
                   emitterVars, pool>>

\* a caller that hands the error of send_connection_event on with ?
AfterEventPropagated(then, res) == IF res = "err" THEN "returned" ELSE then

\* let _ = self.send_connection_event(..).await (lines 257, 263, 275, 286,
\* 354, 372): the Result is dropped and the caller goes on
AfterEvent(then, res) == then

\* send_connection_event, line 530: udp_broadcaster.send_packet of the
\* event, when the socket send gives res
SendEventAs(s, res) ==
    /\ pc[s] = "send_event"
    /\ Handed(packets[s][1])
    /\ Counted(packets[s][1], res)
    /\ packets' = [packets EXCEPT ![s] = <<>>]
    /\ pc' = [pc EXCEPT ![s] = AfterEvent(after[s], res)]
    /\ UNCHANGED <<sequence_counter, retry_count, todo, after, delay, envVars,
                   runVars, callVars, established, observe, built,
                   handshakes, emitterVars, pool>>

SendEvent(s) == \E res \in SendResults : SendEventAs(s, res)

\* connect_to_symbol_session, lines 297-330: URL, handshake, subscription.
\* A failure returns Err to the supervisor, a success enters the read loop
Connect(s) ==
    /\ pc[s] = "connect"
    /\ \E handshake_ok \in (IF connects_left[s] > 0 THEN BOOLEAN ELSE {FALSE}) :
          /\ pc' = [pc EXCEPT ![s] =
                        IF handshake_ok THEN "read" ELSE "returned"]
          /\ connects_left' = [connects_left EXCEPT ![s] =
                                  IF handshake_ok THEN @ - 1 ELSE @]
          /\ established' = [established EXCEPT ![s] = handshake_ok]
          /\ handshakes' = IF "history" \in observe
                           THEN [handshakes EXCEPT ![s] =
                                    Append(@, handshake_ok)]
                           ELSE handshakes
    /\ UNCHANGED <<sequence_counter, retry_count, todo, packets, after, delay,
                   frames_left, arrived, runVars, callVars, observe, stats,
                   built, sendObs, emitterVars, pool>>

\* lines 335-350 with process_message, lines 213-219: a text or binary frame
\* is parsed and, when it parses, the build of its datagrams starts
RecvFrame(s, frame) ==
    /\ pc[s] = "read"
    /\ frames_left[s] > 0
    /\ frames_left' = [frames_left EXCEPT ![s] = @ - 1]
    /\ arrived' = [arrived EXCEPT ![s] =
                        Append(@, "frames" \in observe
                                  => ParseMessage(frame).ok)]
    /\ todo' = [todo EXCEPT ![s] =
                    IF FrameBuild[frame].total = 0 THEN NoBuild
                    ELSE [FrameBuild[frame] EXCEPT
                             !.frame = Len(arrived'[s])]]
    /\ pc' = [pc EXCEPT ![s] =
                  IF FrameBuild[frame].total = 0 THEN "read" ELSE "build"]
    /\ UNCHANGED <<sequence_counter, retry_count, packets, after, delay,
                   connects_left, runVars, callVars, established, observe,
                   stats, built, sendObs, handshakes, emitterVars, pool>>

RecvData(s) == \E frame \in Frames : RecvFrame(s, frame)

\* lines 335-350 with process_message, lines 213-219, on a markPriceUpdate
\* frame: the frame is parsed and, when it parses, the build of the
\* datagrams of its records starts
RecvMarkFrame(s, frame) ==
    /\ pc[s] = "read"
    /\ frames_left[s] > 0
    /\ frames_left' = [frames_left EXCEPT ![s] = @ - 1]
    /\ arrived' = [arrived EXCEPT ![s] =
                        Append(@, [ok |-> ParseMark(frame).ok,
                                   E |-> frame.E])]
    /\ todo' = [todo EXCEPT ![s] =
                    IF ParseMark(frame).ok
                    THEN [mt |-> 0, total |-> 3,
                          chunks |-> [n \in 1..3 |->
                                        <<ParseMark(frame).items[n]>>],
                          frame |-> Len(arrived'[s]), pooled |-> FALSE]
                    ELSE NoBuild]
    /\ pc' = [pc EXCEPT ![s] =
                  IF ParseMark(frame).ok THEN "values" ELSE "read"]
    /\ UNCHANGED <<sequence_counter, retry_count, packets, after, delay,
                   connects_left, runVars, callVars, established, observe,
                   stats, built, sendObs, handshakes, emitterVars, pool>>

RecvMark(s) == \E frame \in MarkFrames : RecvMarkFrame(s, frame)

\* build_packets on a Multi of single-value records: one datagram per record,
\* in the order of the batch, each with its own sequence number
BuildValue(s) ==
    /\ pc[s] = "values"
    /\ CanBuild
    /\ LET b == todo[s]
           rest == Tail(b.chunks)
           seq == FetchAddTaken(sequence_counter)
           p == [SingleValuePacket(s, seq, Head(b.chunks)[1])
                    EXCEPT !.frame = b.frame]
       IN  /\ built' = Append(built, seq)
           /\ packets' = [packets EXCEPT ![s] = Append(@, p)]
           /\ todo' = [todo EXCEPT ![s] =
                          IF rest = <<>> THEN NoBuild
                          ELSE [b EXCEPT !.chunks = rest]]
           /\ pc' = [pc EXCEPT ![s] = IF rest = <<>> THEN "send" ELSE "values"]
    /\ sequence_counter' = FetchAddLeft(sequence_counter)
    /\ UNCHANGED <<retry_count, after, delay, envVars, runVars, callVars,
                   established, observe, stats, sendObs, handshakes,
                   emitterVars, pool>>

\* one turn of the chunk loop of build_order_book_packets (lines 218-234),
\* build_trade_batch_packets (162-177) or build_trade_packets_batch
\* (124-133): setup_header takes the sequence number, then the datagram is
\* assembled; an MTU error fails the whole build and nothing is sent
BuildChunk(s) ==
    /\ pc[s] = "build"
    /\ CanBuild
    /\ LET b == todo[s]
           chunk == Head(b.chunks)
           rest == Tail(b.chunks)
           seq == FetchAddTaken(sequence_counter)
           msg == IF packets[s] = <<>> THEN seq ELSE packets[s][1].msg
           p == [DataPacket(s, seq, b.mt, chunk, b.total - Len(b.chunks),
                            b.total, msg) EXCEPT !.frame = b.frame]
       IN  /\ built' = Append(built, seq)
           /\ IF FitsMtu(Len(chunk))
              THEN /\ packets' = [packets EXCEPT ![s] = Append(@, p)]
                   /\ todo' = [todo EXCEPT ![s] =
                                  IF rest = <<>> THEN NoBuild
                                  ELSE [b EXCEPT !.chunks = rest]]
                   /\ pc' = [pc EXCEPT ![s] =
                                IF rest = <<>> THEN "send" ELSE "build"]
              ELSE /\ packets' = [packets EXCEPT ![s] = <<>>]
                   /\ todo' = [todo EXCEPT ![s] = NoBuild]
                   /\ pc' = [pc EXCEPT ![s] = "read"]
    /\ sequence_counter' = FetchAddLeft(sequence_counter)
    /\ pool' = IF "pool" \in observe /\ todo[s].pooled
               THEN acquire_buffer(pool) ELSE pool
    /\ UNCHANGED <<retry_count, after, delay, envVars, runVars, callVars,
                   established, observe, stats, sendObs, handshakes,
                   emitterVars>>

\* process_message, lines 221-223, with UdpMulticaster::send_packet: the
\* datagrams are sent in build order; an error other than WOULDBLOCK ends the
\* turn (?), and the read loop logs it and goes on (lines 339-341)
SendPacketAs(s, res) ==
    /\ pc[s] = "send"
    /\ Handed(NextPacket(packets[s]))
    /\ Counted(NextPacket(packets[s]), res)
    /\ IF \/ send_packet(stats, NextPacket(packets[s]).size, res).ret = "Err"
          \/ Len(packets[s]) = 1
       THEN /\ packets' = [packets EXCEPT ![s] = <<>>]
            /\ pc' = [pc EXCEPT ![s] = "read"]
       ELSE /\ packets' = [packets EXCEPT ![s] = Tail(@)]
            /\ pc' = pc
    /\ UNCHANGED <<sequence_counter, retry_count, todo, after, delay, envVars,
                   runVars, callVars, established, observe, built,
                   handshakes, emitterVars, pool>>

SendPacket(s) == \E res \in SendResults : SendPacketAs(s, res)

\* lines 351-356 and 369-374: a Close frame or a read error; the
\* DISCONNECTED event is sent with retry count 0 and the function returns
RecvCloseOrError(s) ==
    /\ pc[s] = "read"
    /\ BuildEvent(s, CONNECTION_STATUS_CONNECTED,
                  CONNECTION_STATUS_DISCONNECTED, 0, "returned")
    /\ UNCHANGED <<retry_count, todo, delay, envVars, runVars, callVars,
                   established, observe, stats, sendObs, handshakes,
                   emitterVars, pool>>

\* lines 357-361: a Ping is answered; a Pong that cannot be sent returns Err
RecvPing(s) ==
    /\ pc[s] = "read"
    /\ \E pong_sent \in BOOLEAN :
          pc' = [pc EXCEPT ![s] = IF pong_sent THEN "read" ELSE "returned"]
    /\ UNCHANGED <<sequence_counter, retry_count, todo, packets, after, delay,
                   envVars, runVars, callVars, established, observe, stats,
                   built, sendObs, handshakes, emitterVars, pool>>

\* lines 362-368: Pong and raw frames are ignored
RecvIgnored(s) ==
    /\ pc[s] = "read"
    /\ UNCHANGED vars

\* lines 333, 378-379: the stream ends
StreamEnd(s) ==
    /\ pc[s] = "read"
    /\ pc' = [pc EXCEPT ![s] = "returned"]
    /\ UNCHANGED <<sequence_counter, retry_count, todo, packets, after, delay,
                   envVars, runVars, callVars, established, observe, stats,
                   built, sendObs, handshakes, emitterVars, pool>>

\* a limit test that gives up one attempt late
ExhaustedLate(retry) == retry > MAX_RETRY_COUNT

\* manage_symbol_session, line 271
Exhausted(retry) == retry >= MAX_RETRY_COUNT

\* manage_symbol_session, lines 259-290: the match on what the attempt
\* returned
HandleResult(s) ==
    /\ pc[s] = "returned"
    /\ IF ConnectResult(established[s]) = "Ok"
       THEN /\ BuildEvent(s, CONNECTION_STATUS_CONNECTING,
                          CONNECTION_STATUS_CONNECTED, retry_count[s],
                          "attempt")
            /\ retry_count' = [retry_count EXCEPT ![s] = 0]
            /\ delay' = delay
       ELSE LET retry == retry_count[s] + 1
            IN  /\ retry_count' = [retry_count EXCEPT ![s] = retry]
                /\ IF Exhausted(retry)
                   THEN /\ BuildEvent(s, CONNECTION_STATUS_RECONNECTING,
                                      CONNECTION_STATUS_FAILED, retry, "done")
                        /\ delay' = delay
                   ELSE /\ BuildEvent(s, CONNECTION_STATUS_CONNECTED,
                                      CONNECTION_STATUS_RECONNECTING, retry,
                                      "sleep")
                        /\ delay' = [delay EXCEPT ![s] =
                                        calculate_backoff_delay(retry - 1)]
    /\ UNCHANGED <<todo, envVars, runVars, callVars, established, observe,
                   stats, sendObs, handshakes, emitterVars, pool>>

\* line 288: time::sleep(delay) is over
Sleep(s) ==
    /\ pc[s] = "sleep"
    /\ pc' = [pc EXCEPT ![s] = "attempt"]
    /\ delay' = [delay EXCEPT ![s] = 0]
    /\ UNCHANGED <<sequence_counter, retry_count, todo, packets, after,
                   envVars, runVars, callVars, established, observe, stats,
                   built, sendObs, handshakes, emitterVars, pool>>

\* manage_symbol_session: the steps of the supervisor loop
SuperviseStep(s) ==
    \/ StartAttempt(s)
    \/ SendEvent(s)
    \/ HandleResult(s)
    \/ Sleep(s)

\* connect_to_symbol_session: the connection and what ends it
LinkStep(s) ==
    \/ Connect(s)
    \/ RecvCloseOrError(s)
    \/ RecvPing(s)
    \/ RecvIgnored(s)
    \/ StreamEnd(s)

\* connect_to_symbol_session with process_message: the market-data pipeline
DataStep(s) ==
    \/ RecvData(s)
    \/ BuildChunk(s)
    \/ SendPacket(s)

SessionStep(s) == SuperviseStep(s) \/ LinkStep(s) \/ DataStep(s)

\* ConnectionManager::run, lines 56-96: one handle per configured session
Handles == {s \in Sessions : pc[s] # "absent"}

\* a run that takes a handle as ready without awaiting it
RunJoinNoWait ==
    /\ run_joined < Cardinality(Handles)
    /\ run_joined' = run_joined + 1
    /\ UNCHANGED <<sequence_counter, taskVars, envVars, run_returned,
                   callVars, observe, stats, built, sendObs, handshakes,
                   emitterVars, pool, process>>

\* ConnectionManager::run, lines 98-102: the handles are awaited in spawn
\* order; a handle is ready once its task has returned
RunJoin ==
    /\ run_joined < Cardinality(Handles)
    /\ pc[run_joined + 1] = "done"
    /\ run_joined' = run_joined + 1
    /\ UNCHANGED <<sequence_counter, taskVars, envVars, run_returned,
                   callVars, observe, stats, built, sendObs, handshakes,
                   emitterVars, pool, process>>

\* line 104: Ok(())
RunReturn ==
    /\ run_joined = Cardinality(Handles)
    /\ ~run_returned
    /\ run_returned' = TRUE
    /\ UNCHANGED <<sequence_counter, taskVars, envVars, run_joined, callVars,
                   observe, stats, built, sendObs, handshakes,
                   emitterVars, pool, process>>

\* what ConnectionManager::run returns, line 104: the results of the handles
\* are logged when a task panicked and dropped otherwise
RunResult == "Ok"

\* main.rs: the interrupt or the run-duration timer wins the select; async_main
\* returns Ok(()) and the runtime is dropped with its tasks
MainShutdown ==
    /\ ~process.exited
    /\ process' = [exited |-> TRUE, code |-> 0, cause |-> "signal"]
    /\ UNCHANGED <<sequence_counter, taskVars, envVars, run_joined,
                   run_returned, callVars, observe, stats, built, sendObs,
                   handshakes, emitterVars, pool>>

\* main.rs: the task spawned around run ends; on Err it calls
\* std::process::exit(1), on Ok its handle wins the select and async_main
\* returns Ok(())
MainRunDone ==
    /\ ~process.exited
    /\ run_returned
    /\ process' = [exited |-> TRUE,
                   code |-> IF RunResult = "Err" THEN 1 ELSE 0,
                   cause |-> "run"]
    /\ UNCHANGED <<sequence_counter, taskVars, envVars, run_joined,
                   run_returned, callVars, observe, stats, built, sendObs,
                   handshakes, emitterVars, pool>>

\* a direct call of build_packets on one record, as the unit tests make it
BuildPackets ==
    /\ input # NoInput
    /\ ~output.called
    /\ output' = [called |-> TRUE,
                  result |-> build_packets(input, sequence_counter)]
    /\ built' = built \o output'.result.taken
    /\ sequence_counter' = output'.result.counter
    /\ UNCHANGED <<taskVars, envVars, runVars, input, observe, stats, sendObs,
                   handshakes, emitterVars, pool>>

\* a call of parse_message
ParseCall ==
    /\ input # NoInput
    /\ ~output.called
    /\ output' = [called |-> TRUE,
                  result |-> parse_message(input.exchange, input.parsed)]
    /\ UNCHANGED <<sequence_counter, taskVars, envVars, runVars, input,
                   observe, stats, built, sendObs, handshakes,
                   emitterVars, pool>>

\* a call of normalize_binance_symbol
NormalizeCall ==
    /\ input # NoInput
    /\ ~output.called
    /\ output' = [called |-> TRUE,
                  result |-> normalize_binance_symbol(input.symbol)]
    /\ UNCHANGED <<sequence_counter, taskVars, envVars, runVars, input,
                   observe, stats, built, sendObs, handshakes,
                   emitterVars, pool>>

\* a call of set_symbol or of set_exchange on a new header
SetFieldCall ==
    /\ input # NoInput
    /\ ~output.called
    /\ output' = [called |-> TRUE,
                  result |-> IF input.field = "symbol"
                             THEN set_symbol(input.text)
                             ELSE set_exchange(input.text)]
    /\ UNCHANGED <<sequence_counter, taskVars, envVars, runVars, input,
                   observe, stats, built, sendObs, handshakes,
                   emitterVars, pool>>

\* a call of calculate_backoff_delay
BackoffCall ==
    /\ input # NoInput
    /\ ~output.called
    /\ output' = [called |-> TRUE,
                  result |-> calculate_backoff_delay(input.retry)]
    /\ UNCHANGED <<sequence_counter, taskVars, envVars, runVars, input,
                   observe, stats, built, sendObs, handshakes,
                   emitterVars, pool>>

\* a call of parse_binance_message
BinanceCall ==
    /\ input # NoInput
    /\ ~output.called
    /\ output' = [called |-> TRUE, result |-> parse_binance_message(input)]
    /\ UNCHANGED <<sequence_counter, taskVars, envVars, runVars, input,
                   observe, stats, built, sendObs, handshakes, emitterVars,
                   pool>>

\* the send of send_packet, lines 85-116, on the primary socket
PrimarySend(size) ==
    LET connected == sockets.primary.connected
        path == PrimaryPath(connected)
    IN  \E answer \in SocketAnswers(path, connected, size) :
           LET out == send_packet(stats, answer.n, answer.res)
           IN  /\ stats' = out.stats
               /\ sent' = [port |-> TargetPort, path |-> path,
                           connected |-> connected, ret |-> out.ret,
                           returned |-> answer.n]
               /\ sockets' = sockets

\* a call of UdpMulticaster::send_packet
SendPacketCall ==
    /\ "sockets" \in observe
    /\ stats.packets_sent < MaxSends
    /\ \E size \in SendSizes : PrimarySend(size)
    /\ UNCHANGED <<sequence_counter, taskVars, envVars, runVars, callVars,
                   observe, built, sendObs, handshakes, pool, calls>>

\* a call of UdpMulticaster::send_packet_to_port, lines 120-175: the
\* configured port goes through send_packet; another port gets its socket
\* from the cache, made on first use (bind, options, connect), and the
\* datagram is handed to sock.send
SendPacketToPortCall ==
    /\ "sockets" \in observe
    /\ stats.packets_sent < MaxSends
    /\ \E port \in Ports, size \in SendSizes :
          IF port = TargetPort
          THEN PrimarySend(size)
          ELSE \E bind_ok \in BOOLEAN, connect_ok \in BOOLEAN :
                 LET cached == sockets.by_port[port]
                     connected == IF cached.open THEN cached.connected
                                  ELSE connect_ok
                     path == PortPath(connected)
                 IN  IF ~cached.open /\ ~bind_ok
                     THEN /\ sent' = [port |-> port, path |-> "none",
                                      connected |-> FALSE, ret |-> "Err",
                                      returned |-> 0]
                          /\ UNCHANGED <<stats, sockets>>
                     ELSE \E answer \in SocketAnswers(path, connected, size) :
                            LET out == send_packet(stats, answer.n, answer.res)
                            IN  /\ sockets' =
                                    [sockets EXCEPT !.by_port[port] =
                                        [open |-> TRUE,
                                         connected |-> connected]]
                                /\ stats' = out.stats
                                /\ sent' = [port |-> port, path |-> path,
                                            connected |-> connected,
                                            ret |-> out.ret,
                                            returned |-> answer.n]
    /\ UNCHANGED <<sequence_counter, taskVars, envVars, runVars, callVars,
                   observe, built, sendObs, handshakes, pool, calls>>

\* a call of UdpMulticaster::get_stats, lines 178-183
GetStatsCall ==
    /\ "sockets" \in observe
    /\ output' = [called |-> TRUE, result |-> stats]
    /\ UNCHANGED <<sequence_counter, taskVars, envVars, runVars, input,
                   observe, stats, built, sendObs, handshakes, emitterVars,
                   pool>>

\* a call of UdpMulticaster::reset_stats, lines 186-189
ResetStatsCall ==
    /\ "sockets" \in observe
    /\ stats' = NoStats
    /\ UNCHANGED <<sequence_counter, taskVars, envVars, runVars, callVars,
                   observe, built, sendObs, handshakes, emitterVars, pool>>

\* two sessions within the observation horizon, the emission trace recorded
Next == \E s \in Sessions : SessionStep(s)

Spec == Init /\ [][Next]_vars

\* one session and the frames of its feed, within the observation horizon
SpecFeed == InitFeed /\ [][Next]_vars

\* one session, the frames of its feed and the buffer pool
SpecPool == InitPool /\ [][Next]_vars

\* the whole life of the session tasks and of run
NextLife == (\E s \in Sessions : SessionStep(s)) \/ RunJoin \/ RunReturn

\* the steps a task takes by itself once the runtime polls it: the
\* supervisor loop, the end of a handshake, a build, a send.  What the
\* exchange sends on an open connection, and when, is up to the exchange
TaskStep(s) ==
    SuperviseStep(s) \/ Connect(s) \/ BuildChunk(s) \/ SendPacket(s)

\* one session.  The runtime polls every task that is ready, timers fire,
\* and run is resumed when the handle it awaits is ready
SpecSolo ==
    /\ InitSolo
    /\ [][NextLife]_vars
    /\ \A s \in Sessions : WF_vars(TaskStep(s))
    /\ WF_vars(RunJoin)
    /\ WF_vars(RunReturn)

\* two sessions and run, no frame delivered: the steps of the market-data
\* pipeline are never enabled
NextQuiet ==
    \/ \E s \in Sessions : SuperviseStep(s) \/ LinkStep(s)
    \/ RunJoin
    \/ RunReturn

SpecLife == InitLife /\ [][NextQuiet]_vars

\* the process: the tasks run until main returns or exits
NextMain ==
    \/ ~process.exited /\ NextQuiet
    \/ MainShutdown
    \/ MainRunDone

SpecMain == InitMain /\ [][NextMain]_vars

\* the parser alone
NextParse == ParseCall

SpecParse == InitParse /\ [][NextParse]_vars

\* symbol normalization alone
NextSymbol == NormalizeCall

SpecSymbol == InitSymbol /\ [][NextSymbol]_vars

\* the header setters alone
NextHeader == SetFieldCall

SpecHeader == InitHeader /\ [][NextHeader]_vars

\* the backoff computation alone
NextBackoff == BackoffCall

SpecBackoff == InitBackoff /\ [][NextBackoff]_vars

\* the sessions of a mark-price stream: connections stay open, the frames
\* are markPriceUpdate events
NextMark ==
    \E s \in Sessions :
        \/ SuperviseStep(s)
        \/ Connect(s)
        \/ RecvMark(s)
        \/ BuildValue(s)
        \/ SendPacket(s)

SpecMark == InitMark /\ [][NextMark]_vars

\* the Binance parser alone
NextBinance == BinanceCall

SpecBinance == InitBinance /\ [][NextBinance]_vars

\* one session whose connections, once established, are ended by the
\* exchange with a Close frame
NextClose ==
    \E s \in Sessions : SuperviseStep(s) \/ Connect(s) \/ RecvCloseOrError(s)

SpecClose == InitClose /\ [][NextClose]_vars

\* send_packet of session s up to the answer of the socket, lines 85-99: on
\* Ok(n) the datagram is out and the two fetch_add of lines 101-102 are owed
SocketSend(s) ==
    /\ "snapshots" \in observe
    /\ calls.owed[s].adds = {}
    /\ Len(calls.log) < MaxSends
    /\ \E size \in SendSizes :
          \E answer \in SocketAnswers(PrimaryPath(sockets.primary.connected),
                                      sockets.primary.connected, size) :
             calls' = IF answer.res = "ok"
                      THEN [calls EXCEPT
                               !.log = Append(@, answer.n),
                               !.owed[s] = [adds |-> StatFields,
                                            n |-> answer.n]]
                      ELSE calls
    /\ UNCHANGED <<sequence_counter, taskVars, envVars, runVars, callVars,
                   observe, stats, built, sendObs, handshakes, sockets, sent,
                   pool>>

\* one fetch_add of send_packet, line 101 (packets_sent, by 1) or line 102
\* (bytes_sent, by n).  Both are Ordering::Relaxed on different atomics:
\* nothing orders the two as other threads see them
FetchAddStat(s, field) ==
    /\ "snapshots" \in observe
    /\ field \in calls.owed[s].adds
    /\ stats' = [stats EXCEPT
                    ![field] = @ + IF field = "packets_sent" THEN 1
                                   ELSE calls.owed[s].n]
    /\ calls' = [calls EXCEPT !.owed[s].adds = @ \ {field}]
    /\ UNCHANGED <<sequence_counter, taskVars, envVars, runVars, callVars,
                   observe, built, sendObs, handshakes, sockets, sent, pool>>

\* one load of get_stats, line 180 (packets_sent) or line 181 (bytes_sent),
\* both Ordering::Relaxed; the second one completes the UdpStats returned
LoadStat(field) ==
    /\ "snapshots" \in observe
    /\ calls.loads # {} => field \in calls.loads
    /\ LET left == IF calls.loads = {} THEN StatFields ELSE calls.loads
           seen == [calls.seen EXCEPT ![field] = stats[field]]
       IN  /\ calls' = [calls EXCEPT !.loads = left \ {field},
                                     !.seen = seen]
           /\ output' = IF left = {field}
                        THEN [called |-> TRUE, result |-> seen]
                        ELSE output
    /\ UNCHANGED <<sequence_counter, taskVars, envVars, runVars, input,
                   observe, stats, built, sendObs, handshakes, sockets, sent,
                   pool>>

\* the emitter shared by the session tasks and the metrics task of main,
\* lines 128-145, on the multi-thread runtime
NextStats ==
    \/ \E s \in Sessions : SocketSend(s)
    \/ \E s \in Sessions, field \in StatFields : FetchAddStat(s, field)
    \/ \E field \in StatFields : LoadStat(field)

SpecStats == InitStats /\ [][NextStats]_vars

\* the emitter alone: the calls of its public operations in any order
NextEmitter ==
    \/ SendPacketCall
    \/ SendPacketToPortCall
    \/ GetStatsCall
    \/ ResetStatsCall

SpecEmitter == InitEmitter /\ [][NextEmitter]_vars

\* the packet builder alone
NextBuild == BuildPackets

SpecBuild == InitBuild /\ [][NextBuild]_vars


(***************************************************************************)
(* Properties                                                              *)
(***************************************************************************)
IsData(e) == e.mt # MESSAGE_TYPE_CONNECTION_STATUS

IsEvent(e, previous_status, current_status) ==
    /\ e.mt = MESSAGE_TYPE_CONNECTION_STATUS
    /\ e.prev = previous_status
    /\ e.cur = current_status

\* the datagrams built and not yet handed to the socket, over all sessions
Pending == UNION {{packets[s][k] : k \in 1..Len(packets[s])} : s \in Sessions}

\* C1: in the emission trace of the process (the order in which datagrams
\* are handed to the socket) the sequence numbers are strictly increasing:
\* no datagram is handed over after one with a higher sequence number
C1_NoInversion ==
    \A i, j \in 1..Len(emitted) :
        i < j => emitted[i].seq < emitted[j].seq

\* C2: the counter starts at 1 and every datagram built, market data or
\* event, takes the current counter value and advances the counter by one:
\* after n builds get_sequence_number() is 1 + n, the n-th build took the
\* value n, and no two datagrams carry the same sequence number, whichever
\* way the builds of the sessions interleave
C2_OnePerDatagram ==
    /\ get_sequence_number = InitialSequence + Len(built)
    /\ \A i \in 1..Len(built) : built[i] = InitialSequence + i - 1
    /\ \A p \in Pending : \E i \in 1..Len(built) : built[i] = p.seq
    /\ \A p, q \in Pending : p.seq = q.seq => p = q
    /\ \A i \in 1..Len(emitted) :
          /\ \E k \in 1..Len(built) : built[k] = emitted[i].seq
          /\ \A p \in Pending : p.seq # emitted[i].seq
          /\ \A j \in 1..Len(emitted) :
                emitted[i].seq = emitted[j].seq => i = j

\* the chunks of one message take their numbers one by one while the other
\* session builds in between
C2_Witness ==
    /\ Len(built) = MaxSeq
    /\ \E s \in Sessions :
          /\ Len(packets[s]) = 2
          /\ packets[s][2].seq > packets[s][1].seq + 1

\* C3: of the N >= 1 datagrams of a logical message exactly one has the
\* is_last bit, the one of the last chunk; the datagrams of a message are
\* built and handed to the socket in chunk order with increasing sequence
\* numbers, so the is_last datagram has the highest sequence number of its
\* message and none of the message is emitted after it
C3_OneLastPerMessage ==
    /\ \A p \in Pending :
          /\ IsLast(p.fc) <=> p.idx = p.total - 1
          /\ p.idx < p.total
          /\ p.seq >= p.msg + p.idx
    /\ \A s \in Sessions : \A k \in 1..Len(packets[s]) - 1 :
          /\ packets[s][k + 1].msg = packets[s][k].msg
          /\ packets[s][k + 1].idx = packets[s][k].idx + 1
          /\ packets[s][k + 1].seq > packets[s][k].seq
    /\ \A i \in 1..Len(emitted) :
          /\ IsLast(emitted[i].fc) <=> emitted[i].idx = emitted[i].total - 1
          /\ emitted[i].idx < emitted[i].total
          /\ \A j \in 1..Len(emitted) :
                i < j /\ emitted[i].msg = emitted[j].msg
                => /\ ~IsLast(emitted[i].fc)
                   /\ emitted[i].idx < emitted[j].idx
                   /\ emitted[i].seq < emitted[j].seq
          /\ \A p \in Pending :
                p.msg = emitted[i].msg
                => /\ ~IsLast(emitted[i].fc)
                   /\ emitted[i].idx < p.idx
                   /\ emitted[i].seq < p.seq

\* both datagrams of a two-chunk message are out, a datagram of the other
\* session between them
C3_Witness ==
    \E i, j, k \in 1..Len(emitted) :
        /\ i < j /\ j < k
        /\ IsData(emitted[i])
        /\ emitted[i].msg = emitted[k].msg
        /\ emitted[j].s # emitted[i].s
        /\ ~IsLast(emitted[i].fc)
        /\ IsLast(emitted[k].fc)
        /\ emitted[k].total = 2

\* C4: every datagram build_packets returns, whatever the size of the
\* record, is at most 1472 bytes long and its header item_count (the low 7
\* bits of flags_and_count) is at most 80
C4_WithinMtu ==
    output.called =>
        \A k \in 1..Len(output.result.packets) :
            /\ output.result.packets[k].size <= MaxPacketSize
            /\ ItemCount(output.result.packets[k].fc) <= MaxItemCount

\* a record of more than 160 items came out as three datagrams or more,
\* the first one full
C4_Witness ==
    /\ output.called
    /\ output.result.ok
    /\ Len(output.result.packets) >= 3
    /\ output.result.packets[1].n = MaxItemCount
    /\ output.result.packets[1].size = PacketSize(MaxItemCount)

\* the (previous_status, current_status) pairs of a session's events
Pairs(s) == [i \in 1..Len(events[s]) |-> <<events[s][i][1], events[s][i][2]>>]

\* the transitions of the connection state machine
Transitions ==
    { <<CONNECTION_STATUS_DISCONNECTED, CONNECTION_STATUS_CONNECTING>>,
      <<CONNECTION_STATUS_CONNECTING, CONNECTION_STATUS_CONNECTED>>,
      <<CONNECTION_STATUS_CONNECTED, CONNECTION_STATUS_DISCONNECTED>>,
      <<CONNECTION_STATUS_CONNECTED, CONNECTION_STATUS_RECONNECTING>>,
      <<CONNECTION_STATUS_RECONNECTING, CONNECTION_STATUS_CONNECTING>> }
    \cup { <<from, CONNECTION_STATUS_FAILED>> :
              from \in {CONNECTION_STATUS_DISCONNECTED,
                        CONNECTION_STATUS_CONNECTING,
                        CONNECTION_STATUS_CONNECTED,
                        CONNECTION_STATUS_RECONNECTING,
                        CONNECTION_STATUS_FAILED} }

\* C5: the ConnectionStatus events a session has emitted form a path of the
\* state machine: the first one leaves DISCONNECTED, every later one leaves
\* the status the one before it entered, and every pair is a transition
C5_EventsFormPath ==
    \A s \in Sessions :
        /\ Len(events[s]) >= 1
           => Pairs(s)[1][1] = CONNECTION_STATUS_DISCONNECTED
        /\ \A i \in 2..Len(events[s]) : Pairs(s)[i][1] = Pairs(s)[i - 1][2]
        /\ \A i \in 1..Len(events[s]) : Pairs(s)[i] \in Transitions

\* three failed handshakes, then one that succeeds
ThreeFailuresThenSuccess == <<FALSE, FALSE, FALSE, TRUE>>

ScenarioEvents ==
    << <<0, 1>>, <<1, 3>>, <<3, 1>>, <<1, 3>>, <<3, 1>>, <<1, 3>>, <<3, 1>>,
       <<1, 2>> >>

\* C6: a session whose handshakes so far were three failures and then a
\* success has emitted, event for event, the pairs (0,1),(1,3),(3,1),(1,3),
\* (3,1),(1,3),(3,1),(1,2): each event it has emitted up to the eighth is
\* the one the list has at that place
C6_ScenarioTrace ==
    \A s \in Sessions :
        handshakes[s] = ThreeFailuresThenSuccess
        => \A i \in 1..Min(Len(events[s]), Len(ScenarioEvents)) :
              Pairs(s)[i] = ScenarioEvents[i]

\* C7: every market-data datagram in the emission trace comes after a
\* (CONNECTING, CONNECTED) event of its session, emitted since the
\* session's last (DISCONNECTED, CONNECTING) event
C7_ConnectedBeforeData ==
    \A i \in 1..Len(emitted) :
        IsData(emitted[i])
        => \E j \in 1..(i - 1) :
              /\ emitted[j].s = emitted[i].s
              /\ IsEvent(emitted[j], CONNECTION_STATUS_CONNECTING,
                         CONNECTION_STATUS_CONNECTED)
              /\ \A k \in (j + 1)..(i - 1) :
                    ~(/\ emitted[k].s = emitted[i].s
                      /\ IsEvent(emitted[k], CONNECTION_STATUS_DISCONNECTED,
                                 CONNECTION_STATUS_CONNECTING))

Terminated(s) == pc[s] = "done"

\* the FAILED events among a session's events
FailedAt(s) ==
    {i \in 1..Len(events[s]) : events[s][i][2] = CONNECTION_STATUS_FAILED}

EverConnected(s) == \E i \in 1..Len(handshakes[s]) : handshakes[s][i]

\* what holds of a session at every moment: a FAILED event is the
\* session's only one and its last event, it carries retry count 10, and the
\* session has terminated; a terminated session has made exactly 10
\* attempts, has emitted its FAILED event, holds no datagram and has no step
C8_FailedIsTerminal ==
    \A s \in Sessions :
        /\ \A i \in FailedAt(s) :
              /\ i = Len(events[s])
              /\ events[s][i][3] = MAX_RETRY_COUNT
              /\ Terminated(s)
        /\ Terminated(s)
           => /\ Cardinality(FailedAt(s)) = 1
              /\ Len(handshakes[s]) = MAX_RETRY_COUNT
              /\ retry_count[s] = MAX_RETRY_COUNT
              /\ packets[s] = <<>>
              /\ ~ENABLED SessionStep(s)

\* C8: a session all of whose handshakes fail gives up: it terminates, and
\* it does so after its 10th failed attempt with exactly one FAILED event
\* of retry count 10, after which it attempts and emits nothing
C8_GivesUp ==
    /\ []C8_FailedIsTerminal
    /\ \A s \in Sessions :
          <>(pc[s] = "absent" \/ Terminated(s) \/ EverConnected(s))

\* the session has failed ten handshakes, has terminated, run has returned
C8_Witness ==
    /\ Terminated(1)
    /\ ~EverConnected(1)
    /\ Len(handshakes[1]) = MAX_RETRY_COUNT
    /\ events[1][Len(events[1])] =
          <<CONNECTION_STATUS_RECONNECTING, CONNECTION_STATUS_FAILED,
            MAX_RETRY_COUNT>>
    /\ run_returned

\* failed handshakes since the last one that succeeded
RECURSIVE FailStreak(_)
FailStreak(h) ==
    IF h = <<>> \/ h[Len(h)] THEN 0
    ELSE 1 + FailStreak(SubSeq(h, 1, Len(h) - 1))

\* C9: the retry count is back at 0 once a handshake has succeeded, so it
\* never exceeds the failed handshakes since the last success, and a session
\* terminates only after 10 handshakes in a row have failed
C9_RetryCountsConsecutiveFailures ==
    \A s \in Sessions :
        /\ retry_count[s] <= FailStreak(handshakes[s])
        /\ Terminated(s) => FailStreak(handshakes[s]) >= MAX_RETRY_COUNT

Alive(s) == pc[s] \notin {"absent", "done"}

\* the task state of a session
Task(s) == <<pc[s], retry_count[s], todo[s], packets[s], after[s], delay[s]>>

\* a step moves one task at most
OneTaskMoves ==
    \A s, u \in Sessions :
        Task(s)' # Task(s) /\ u # s => Task(u)' = Task(u)

\* C10: a session that has not terminated always has a step of its own to
\* take, whatever the other session is doing (failing, retrying, sleeping,
\* terminated); no step of one session touches the task of another; and run
\* has returned only when every session task has terminated
C10_Independent ==
    /\ [](\A s \in Sessions : Alive(s) => ENABLED SessionStep(s))
    /\ [][OneTaskMoves]_vars
    /\ [](run_returned => \A s \in Sessions : ~Alive(s))

\* the second session has given up and terminated, the first one is
\* connected and reading, run still awaits the first handle
C10_Witness ==
    /\ Terminated(2)
    /\ pc[1] = "read"
    /\ retry_count[1] > 0
    /\ run_joined = 0
    /\ ~run_returned

\* the market-data datagrams of session s in the emission trace
DataOf(s) == SelectSeq(emitted, LAMBDA e : e.s = s /\ IsData(e))

\* C11: within one session the frames are processed in arrival order: every
\* datagram of a frame is handed to the socket before any datagram of a
\* frame that arrived later, nothing of an earlier frame is still being built
\* or waiting when a datagram of a later frame is handed over, and the
\* datagrams of one frame are handed over in chunk order with increasing
\* sequence numbers
C11_FramesInOrder ==
    \A s \in Sessions :
        LET d == DataOf(s)
        IN  /\ \A i, j \in 1..Len(d) :
                  i < j => /\ d[i].frame <= d[j].frame
                           /\ d[i].frame = d[j].frame
                              => /\ d[i].idx < d[j].idx
                                 /\ d[i].seq < d[j].seq
            /\ \A i \in 1..Len(d) :
                  /\ d[i].frame >= 1
                  /\ d[i].frame <= Len(arrived[s])
                  /\ todo[s].chunks # <<>> => d[i].frame < todo[s].frame
                  /\ \A k \in 1..Len(packets[s]) :
                        IsData(packets[s][k])
                        => /\ d[i].frame <= packets[s][k].frame
                           /\ d[i].frame = packets[s][k].frame
                              => /\ d[i].idx < packets[s][k].idx
                                 /\ d[i].seq < packets[s][k].seq

\* both datagrams of a two-chunk frame are out, and after them the datagram
\* of the frame that arrived next
C11_Witness ==
    \E s \in Sessions :
        /\ Len(DataOf(s)) = 3
        /\ DataOf(s)[1].frame = 1 /\ DataOf(s)[1].idx = 0
        /\ DataOf(s)[2].frame = 1 /\ DataOf(s)[2].idx = 1
        /\ DataOf(s)[3].frame = 2

\* the payloads the parser has to reject: malformed JSON, no event type, an
\* event type it does not support, a required field missing
FailsToParse(frame) ==
    \/ ~frame.json
    \/ frame.e = "none"
    \/ frame.e \notin {"trade", "aggTrade", "depthUpdate"}
    \/ ~frame.complete

\* C12: the step that reads a text or binary frame which fails to parse
\* emits nothing and builds nothing, leaves the sequence counter, the retry
\* counts and the statistics as they were, and leaves the session reading on
\* the same connection: the frame is consumed and no attempt is spent
C12_ParseFailureSkipsFrame ==
    [][\A s \in Sessions : \A frame \in Frames :
          RecvFrame(s, frame) /\ FailsToParse(frame)
          => /\ sequence_counter' = sequence_counter
             /\ built' = built
             /\ emitted' = emitted
             /\ stats' = stats
             /\ retry_count' = retry_count
             /\ packets'[s] = <<>>
             /\ todo'[s] = NoBuild
             /\ pc'[s] = "read"
             /\ established' = established
             /\ connects_left' = connects_left
             /\ events' = events
             /\ frames_left'[s] = frames_left[s] - 1]_vars

\* the first frame of the session failed to parse, the second one parsed
\* and its datagram went out on the same connection, the only one the
\* session has had
C12_Witness ==
    \E s \in Sessions :
        /\ arrived[s] = <<FALSE, TRUE>>
        /\ Len(DataOf(s)) = 1
        /\ DataOf(s)[1].frame = 2
        /\ pc[s] = "read"
        /\ retry_count[s] = 0
        /\ connects_left[s] = MaxConnects - 1

\* C13: the step that hands a datagram to the socket when the socket answers
\* WOULDBLOCK: send_packet returns Ok, packets_sent and bytes_sent stay as
\* they were, the datagram has left the queue for good (it is not sent
\* again), and the session goes on with the next datagram of the message,
\* or with the next frame when there is none; nothing of the connection or
\* of the retry count changes
C13_WouldBlockDrops ==
    [][\A s \in Sessions :
          SendPacketAs(s, "wouldblock")
          => /\ send_packet(stats, NextPacket(packets[s]).size,
                            "wouldblock").ret = "Ok"
             /\ stats' = stats
             /\ packets'[s] = Tail(packets[s])
             /\ pc'[s] = IF Len(packets[s]) > 1 THEN "send" ELSE "read"
             /\ sequence_counter' = sequence_counter
             /\ retry_count' = retry_count
             /\ established' = established]_vars

\* the first datagram of a two-chunk message was handed over and nothing
\* was counted, the session is about to send the second one
C13_Witness ==
    \E s \in Sessions :
        /\ pc[s] = "send"
        /\ Len(packets[s]) = 1
        /\ packets[s][1].idx = 1
        /\ Len(DataOf(s)) = 1
        /\ DataOf(s)[1].idx = 0
        /\ DataOf(s)[1].msg = packets[s][1].msg
        /\ stats = NoStats

\* C14: the step that hands a datagram to the socket when the send fails
\* with an error other than WOULDBLOCK: send_packet returns Err, packets_sent
\* and bytes_sent stay as they were, the rest of the message is given up,
\* and the session is back reading the next frame on the same connection
\* with its retry count as it was
C14_SendErrorKeepsSession ==
    [][\A s \in Sessions :
          SendPacketAs(s, "err")
          => /\ send_packet(stats, NextPacket(packets[s]).size,
                            "err").ret = "Err"
             /\ stats' = stats
             /\ packets'[s] = <<>>
             /\ pc'[s] = "read"
             /\ retry_count' = retry_count
             /\ established' = established
             /\ connects_left' = connects_left
             /\ frames_left' = frames_left
             /\ events' = events]_vars

\* the send of the first datagram of a two-chunk frame failed and the second
\* was given up; the session stayed on its connection and the datagram of
\* the next frame went out and was counted
C14_Witness ==
    \E s \in Sessions :
        /\ Len(DataOf(s)) = 2
        /\ DataOf(s)[1].frame = 1
        /\ DataOf(s)[1].total = 2
        /\ DataOf(s)[2].frame = 2
        /\ stats.packets_sent = 1
        /\ stats.bytes_sent = DataOf(s)[2].size
        /\ retry_count[s] = 0
        /\ connects_left[s] = MaxConnects - 1
        /\ pc[s] = "read"

\* the items of the datagrams a build returned, in emission order
RECURSIVE AllItems(_)
AllItems(ps) ==
    IF ps = <<>> THEN <<>> ELSE Head(ps).items \o AllItems(Tail(ps))

BuiltBook == output.called /\ output.result.ok /\ input.kind = "OrderBook"

\* C15: the items of one order-book message, read across its datagrams in
\* emission order: every bid item (flag clear) stands before every ask item
\* (flag set), bid prices do not increase, ask prices do not decrease, and
\* no item carries quantity 0 on the wire, whatever positive quantity the
\* level had on input
C15_BookItemsOrdered ==
    BuiltBook =>
        LET it == AllItems(output.result.packets)
        IN  /\ \A i, j \in 1..Len(it) :
                  i < j => /\ it[i].flag => it[j].flag
                           /\ ~it[i].flag /\ ~it[j].flag
                              => it[i].price >= it[j].price
                           /\ it[i].flag /\ it[j].flag
                              => it[i].price <= it[j].price
            /\ \A i \in 1..Len(it) : it[i].qty # 0

BuiltTrades ==
    output.called /\ output.result.ok /\ input.kind \in {"Trade", "TradeBatch"}

\* trades whose quantities tell their arrival order
Tagged ==
    \A i, j \in 1..Len(input.trades) :
        i < j => input.trades[i].quantity < input.trades[j].quantity

\* C16: the items of one trade emission (one batch, or the trades of one
\* timestamp, symbol and venue), read across its datagrams in emission
\* order: every item with is_buyer_taker set stands before every item
\* without it, prices do not decrease among the former and do not increase
\* among the latter, and of two trades of the same side and price the one
\* that arrived first comes first
C16_TradeItemsOrdered ==
    BuiltTrades =>
        LET it == AllItems(output.result.packets)
        IN  /\ Len(it) = Len(input.trades)
            /\ \A i, j \in 1..Len(it) :
                  i < j => /\ it[j].flag => it[i].flag
                           /\ it[i].flag /\ it[j].flag
                              => it[i].price <= it[j].price
                           /\ ~it[i].flag /\ ~it[j].flag
                              => it[i].price >= it[j].price
            /\ Tagged
               => \A i, j \in 1..Len(it) :
                     /\ i < j
                     /\ it[i].flag = it[j].flag
                     /\ it[i].price = it[j].price
                     => it[i].qty < it[j].qty

\* a chunked emission with trades of both sides, some of them at the same
\* price on the same side
C16_Witness ==
    /\ BuiltTrades
    /\ Tagged
    /\ Len(output.result.packets) >= 2
    /\ LET it == AllItems(output.result.packets)
       IN  /\ \E i, j \in 1..Len(it) : it[i].flag /\ ~it[j].flag
           /\ \E i, j \in 1..Len(it) :
                 /\ i < j
                 /\ it[i].flag = it[j].flag
                 /\ it[i].price = it[j].price

\* the levels of a side that are kept: those of positive quantity
Retained(side) == SelectSeq(side, LAMBDA l : l.quantity > 0)

\* how often x occurs in seq
Count(seq, x) == Cardinality({i \in 1..Len(seq) : seq[i] = x})

ItemCounts(ps) == [k \in 1..Len(ps) |-> ItemCount(ps[k].fc)]

RECURSIVE Sum(_)
Sum(ns) == IF ns = <<>> THEN 0 ELSE Head(ns) + Sum(Tail(ns))

\* C17: an order-book update with n > 0 retained levels comes out as
\* ceil(n / 80) datagrams of message type 0; every datagram but the last has
\* item count 80 and carries 80 items, the item counts sum to n, and the
\* payloads read in emission order are the retained levels, each as often
\* as it was given, bids first by descending price, then asks by ascending
\* price
C17_BookChunking ==
    BuiltBook =>
        LET ps == output.result.packets
            it == AllItems(ps)
            rb == Retained(input.ob.bids)
            ra == Retained(input.ob.asks)
            n == Len(rb) + Len(ra)
        IN  n > 0 =>
            /\ Len(ps) = (n + MaxItemCount - 1) \div MaxItemCount
            /\ \A k \in 1..Len(ps) :
                  /\ ps[k].mt = MESSAGE_TYPE_ORDER_BOOK
                  /\ ItemCount(ps[k].fc) = Len(ps[k].items)
                  /\ k < Len(ps) => ItemCount(ps[k].fc) = MaxItemCount
                  /\ ItemCount(ps[k].fc) >= 1
            /\ Sum(ItemCounts(ps)) = n
            /\ Len(it) = n
            /\ \A i \in 1..Len(rb) :
                  LET x == ItemNew(rb[i].price, rb[i].quantity, FALSE)
                  IN  Count(it, x) =
                        Cardinality({j \in 1..Len(rb) : rb[j] = rb[i]})
            /\ \A i \in 1..Len(ra) :
                  LET x == ItemNew(ra[i].price, ra[i].quantity, TRUE)
                  IN  Count(it, x) =
                        Cardinality({j \in 1..Len(ra) : ra[j] = ra[i]})
            /\ \A i \in 1..Len(it) - 1 :
                  /\ it[i].flag => it[i + 1].flag
                  /\ ~it[i].flag /\ ~it[i + 1].flag
                     => it[i].price >= it[i + 1].price
                  /\ it[i].flag /\ it[i + 1].flag
                     => it[i].price <= it[i + 1].price

\* the update of 85 bids and 95 asks has come out as three datagrams, the
\* last one with the remainder of the levels and the is_last flag
C17_Witness ==
    /\ BuiltBook
    /\ Len(input.ob.bids) = ManyBids
    /\ Len(input.ob.asks) = ManyAsks
    /\ Len(output.result.packets) = 3
    /\ ItemCounts(output.result.packets) =
          <<MaxItemCount, MaxItemCount,
            ManyBids + ManyAsks - 2 * MaxItemCount>>
    /\ IsLast(output.result.packets[3].fc)
    /\ ~AllItems(output.result.packets)[ManyBids].flag
    /\ AllItems(output.result.packets)[ManyBids + 1].flag

\* the records of a result that carry a venue: the record itself, or the
\* elements of a Multi, at any depth
RECURSIVE VenueRecords(_)
VenueRecords(r) ==
    IF r.kind = "Multi"
    THEN UNION { VenueRecords(r.items[i]) : i \in 1..Len(r.items) }
    ELSE {r}

\* C18: every record parse_message returns for a session of venue V carries
\* venue V in its exchange field, whatever its kind and whatever venue the
\* per-venue parser had put there; so does every element of a Multi
C18_VenueIsSession ==
    output.called /\ input.kind = "frame" /\ output.result.ok
    => /\ output.result.record.kind = input.parsed.kind
       /\ \A r \in VenueRecords(output.result.record) :
             r.exchange = input.exchange

\* a Multi of two records tagged with venues other than the session's has
\* come back with both retagged
C18_Witness ==
    /\ output.called
    /\ input.kind = "frame"
    /\ output.result.ok
    /\ input.parsed.kind = "Multi"
    /\ Len(input.parsed.items) = MaxMulti
    /\ \A i \in 1..Len(input.parsed.items) :
          /\ input.parsed.items[i].kind # "Multi"
          /\ input.parsed.items[i].exchange # input.exchange
    /\ input.parsed.items[1].kind = "Liquidation"
    /\ Cardinality(VenueRecords(output.result.record)) = 2

\* C19: symbol normalization is idempotent: normalizing what
\* normalize_binance_symbol returned gives the same string again, for every
\* input (for BTCUSDT: BTC^USDT both times)
C19_NormalizeIdempotent ==
    output.called /\ input.kind = "symbol"
    => normalize_binance_symbol(output.result) = output.result

\* the characters [A-Za-z0-9^_-]
Allowed(c) ==
    \/ c \in {"^", "_", "-"}
    \/ c \in {UpperCase[i] : i \in 1..Len(UpperCase)}
    \/ c \in {LowerCase[i] : i \in 1..Len(LowerCase)}
    \/ c \in {Digits[i] : i \in 1..Len(Digits)}

\* the bytes of a field before its first NUL
FieldText(field) ==
    LET nuls == {i \in 1..Len(field) : field[i] = NUL}
    IN  IF nuls = {} THEN field
        ELSE SubSeq(field, 1, (CHOOSE i \in nuls : \A j \in nuls : i <= j) - 1)

\* C20: after set_symbol or set_exchange with any text the field is 20
\* bytes long: allowed characters first, then NUL bytes only, at least one
\* of them (at most 19 bytes of text); the text is the input with its
\* disallowed characters removed, cut to its first 19 characters
C20_FieldSanitized ==
    output.called /\ input.kind = "text"
    => LET field == output.result
           text == FieldText(field)
           kept == SelectSeq(input.text, Allowed)
       IN  /\ Len(field) = FieldSize
           /\ Len(text) <= MaxFieldText
           /\ field[FieldSize] = NUL
           /\ \A i \in 1..Len(text) : Allowed(field[i])
           /\ \A i \in (Len(text) + 1)..FieldSize : field[i] = NUL
           /\ text = SubSeq(kept, 1, Min(Len(kept), MaxFieldText))

\* a text with blanks around it, a character that is not allowed inside,
\* and more than 19 that are: the field holds the first 19 of them
C20_Witness ==
    /\ output.called
    /\ input.kind = "text"
    /\ input.text # <<>>
    /\ input.text[1] = " "
    /\ input.text[Len(input.text)] = " "
    /\ \E i \in 1..Len(input.text) : input.text[i] = "/"
    /\ Len(SelectSeq(input.text, Allowed)) > MaxFieldText
    /\ Len(FieldText(output.result)) = MaxFieldText


(***************************************************************************)
(* C21: calculate_backoff_delay(k) is 1000 ms for k = 0 and                *)
(* min(1000 * 2^min(k,6), 60000) ms for k >= 1: for k = 0..10 the delays   *)
(* are 1, 2, 4, 8, 16, 32, 60, 60, 60, 60, 60 seconds; the delay never     *)
(* decreases as k grows and never exceeds 60 seconds.                      *)
(***************************************************************************)
\* the delays of retries 0..10, in seconds
DelayTable == <<1, 2, 4, 8, 16, 32, 60, 60, 60, 60, 60>>

\* the delay of retry k by the closed form, in milliseconds
ClosedForm(k) ==
    IF k = 0 THEN 1000
    ELSE LET doubled == 1000 * (2 ^ (IF k < 6 THEN k ELSE 6))
         IN  IF doubled < 60000 THEN doubled ELSE 60000

C21_BackoffDelays ==
    (input.kind = "retry" /\ output.called) =>
        LET k == input.retry
            d == output.result
        IN  /\ d = ClosedForm(k)
            /\ k <= 10 => d = 1000 * DelayTable[k + 1]
            /\ d <= 60000
            /\ \A j \in 0..k : ClosedForm(j) <= d

\* the call for retry 6 has returned: the first delay the cap cuts
C21_Witness ==
    /\ input.kind = "retry"
    /\ input.retry = 6
    /\ output.called
    /\ output.result = 60000


(***************************************************************************)
(* C22: over any sequence of emitter operations (send_packet,              *)
(* send_packet_to_port, get_stats, reset_stats) the totals packets_sent    *)
(* and bytes_sent never decrease, and bytes_sent grows only by the byte    *)
(* count a successful send returned.                                       *)
(***************************************************************************)
C22_TotalsMonotonic ==
    [][/\ stats'.packets_sent >= stats.packets_sent
       /\ stats'.bytes_sent >= stats.bytes_sent
       /\ stats'.bytes_sent # stats.bytes_sent =>
              /\ sent'.ret = "Ok"
              /\ stats'.bytes_sent = stats.bytes_sent + sent'.returned]_vars


(***************************************************************************)
(* C23: a Close frame ends only the current connection attempt, never the  *)
(* supervisor: on Close the session emits ConnectionStatus (CONNECTED,     *)
(* DISCONNECTED), stops reading that connection and afterwards starts a    *)
(* new attempt; no number of Close frames received on successfully         *)
(* established connections makes the session terminate.                    *)
(***************************************************************************)
\* every handshake the session has made so far succeeded
AllEstablished(s) ==
    /\ handshakes[s] # <<>>
    /\ \A i \in 1..Len(handshakes[s]) : handshakes[s][i]

\* the event the session sent last
LastEvent(s) == events[s][Len(events[s])]

C23_CloseEndsAttemptOnly ==
    \A s \in Sessions :
        AllEstablished(s) =>
            /\ pc[s] = "returned" =>
                  LastEvent(s) = <<CONNECTION_STATUS_CONNECTED,
                                   CONNECTION_STATUS_DISCONNECTED, 0>>
            /\ ~Terminated(s)


(***************************************************************************)
(* C24: for every Binance event kind (trade, aggTrade, depthUpdate,        *)
(* markPriceUpdate, forceOrder) a missing required price or quantity field *)
(* or a price or quantity string that does not parse as a number makes the *)
(* parser return an error, so no record is produced: a forceOrder with an  *)
(* unparseable or absent price or quantity is not turned into a            *)
(* Liquidation with value 0.                                               *)
(***************************************************************************)
\* a required price or quantity of the event is missing or does not parse
Defective(ev) ==
    CASE ev.e \in {"trade", "aggTrade"} -> ev.p # "number" \/ ev.q # "number"
      [] ev.e = "depthUpdate" ->
            \E side \in {ev.b, ev.a} :
                \/ ~side.present
                \/ \E n \in 1..Len(side.levels) :
                      side.levels[n] # <<"number", "number">>
      [] ev.e = "markPriceUpdate" ->
            ev.p # "number" \/ ev.i # "number" \/ ev.r # "number"
      [] ev.e = "forceOrder" ->
            \/ (IF ev.ap # "absent" THEN ev.ap ELSE ev.p) # "number"
            \/ ev.q # "number"

C24_DefectiveNumberFails ==
    (input.kind = "event" /\ output.called /\ Defective(input)) =>
        ~output.result.ok


(***************************************************************************)
(* C25: a well-formed Binance markPriceUpdate frame processed by a session *)
(* results in exactly three emitted datagrams, with message_type 2         *)
(* (IndexPrice), 3 (MarkPrice) and 4 (FundingRate), each with              *)
(* item_count = 1 and is_last = 1, all three carrying the same header      *)
(* exchange_timestamp (E * 10^6 ns) and three distinct consecutive         *)
(* sequence numbers.                                                       *)
(***************************************************************************)
\* the datagrams of frame f of session s handed to the socket so far
MarkEmitted(s, f) ==
    SelectSeq(emitted, LAMBDA e : e.s = s /\ e.frame = f)

\* the build or the send loop of frame f of session s is under way
MarkInHand(s, f) == f = Len(arrived[s]) /\ pc[s] \in {"values", "send"}

\* the datagrams of the frame in hand that are built and not yet handed over
MarkPending(s, f) ==
    IF MarkInHand(s, f)
    THEN [i \in 1..Len(packets[s]) |-> TraceEntry(packets[s][i])]
    ELSE <<>>

\* datagrams of types 2, 3, 4 in this order, one item each, is_last set,
\* with the event time E in nanoseconds
SingleValues(ds, E) ==
    \A i \in 1..Len(ds) :
        /\ ds[i].mt = i + 1
        /\ ItemCount(ds[i].fc) = 1
        /\ IsLast(ds[i].fc)
        /\ ds[i].ts = E * 1000000

TradeKey(t) == <<t.timestamp, t.symbol, t.exchange>>

\* the keys of the two nested HashMaps of build_trade_packets_batch
TradeKeys(trades) == {TradeKey(trades[i]) : i \in 1..Len(trades)}

\* the orders in which the two nested HashMaps can be iterated: any order of
\* the timestamps and, inside one timestamp, any order of its
\* (symbol, exchange) pairs
GroupOrders(trades) ==
    LET keys == TradeKeys(trades)
        n == Cardinality(keys)
    IN  { f \in [1..n -> keys] :
            /\ \A k \in keys : \E i \in 1..n : f[i] = k
            /\ \A i, j \in 1..n :
                    (i < j /\ f[i][1] = f[j][1])
                        => \A m \in i..j : f[m][1] = f[i][1] }

\* the trades of one (timestamp, symbol, exchange) group as the code holds
\* them: the trades of the timestamp, sorted, then those of the pair
GroupTrades(trades, key) ==
    LET SameTime(t) == t.timestamp = key[1]
        SamePair(t) == t.symbol = key[2] /\ t.exchange = key[3]
    IN  SelectSeq(SortTrades(SelectSeq(trades, SameTime)), SamePair)

\* setup_header on a datagram of a chunk loop
WithHeader(p, symbol, exchange, timestamp) ==
    [symbol |-> symbol, exchange |-> exchange, timestamp |-> timestamp,
     seq |-> p.seq, mt |-> p.mt, fc |-> p.fc, items |-> p.items,
     idx |-> p.idx, total |-> p.total]

\* build_trade_packets_batch for the groups in one iteration order
RECURSIVE TradeGroupLoop(_, _, _, _)
TradeGroupLoop(done, counter, trades, order) ==
    IF order = <<>>
    THEN [packets |-> done, counter |-> counter]
    ELSE LET key == Head(order)
             chunks == TradeGroupChunks(GroupTrades(trades, key))
             loop == BuildLoop(<<>>, <<>>, counter, MESSAGE_TYPE_TRADE_TICK,
                               chunks, Len(chunks))
             group == [i \in 1..Len(loop.packets) |->
                          WithHeader(loop.packets[i], key[2], key[3], key[1])]
         IN  TradeGroupLoop(done \o group, loop.counter, trades, Tail(order))

build_trade_packets_batch(trades, order, counter) ==
    IF trades = <<>>
    THEN [packets |-> <<>>, counter |-> counter]
    ELSE TradeGroupLoop(<<>>, counter, trades, order)

\* build_trade_batch_packets: one logical message under the batch's metadata
build_trade_batch_packets(batch, counter) ==
    LET chunks == TradeBatchChunks(batch.trades)
        loop == BuildLoop(<<>>, <<>>, counter, MESSAGE_TYPE_TRADE_TICK,
                          chunks, Len(chunks))
    IN  [packets |-> [i \in 1..Len(loop.packets) |->
                        WithHeader(loop.packets[i], batch.symbol,
                                   batch.exchange, batch.exchange_timestamp)],
         counter |-> loop.counter]

\* trades of several timestamps, symbols and venues; the quantity of a trade
\* is its arrival position, which makes every trade recognisable in the items
TradeSymbols == <<"BTC^USDT", "ETH^USDT">>
TradeVenues == <<"BinanceSpot", "BinanceFutures">>

MixedTrades(n, times, symbols, venues) ==
    [i \in 1..n |->
        [price |-> (1 + (i % 3)) * FineScale,
         quantity |-> i * FineScale,
         is_buyer_taker |-> (i % 3 = 0),
         timestamp |-> 1 + (i % times),
         symbol |-> TradeSymbols[1 + ((i \div 2) % symbols)],
         exchange |-> TradeVenues[1 + ((i \div 2) % venues)]]]

TradeShapes == {<<1, 1, 1>>, <<2, 1, 1>>, <<1, 2, 1>>, <<1, 1, 2>>,
                <<2, 2, 1>>, <<2, 2, 2>>}

TradeCounts == {0, 1, 2, 3, 6, BigTrades - 1, BigTrades}

TradePathInputs ==
    { [kind |-> "Trades",
       trades |-> MixedTrades(n, sh[1], sh[2], sh[3])] :
            n \in TradeCounts, sh \in TradeShapes }
    \cup
    { [kind |-> "TradeBatch", symbol |-> TradeSymbols[1],
       exchange |-> TradeVenues[1], exchange_timestamp |-> 7,
       trades |-> MixedTrades(n, sh[1], sh[2], sh[3])] :
            n \in TradeCounts, sh \in TradeShapes }

\* a PacketBuilder about to be handed a vector of trades or a trade batch
InitTrades == InitWith({}, {}, {}, {}) /\ input \in TradePathInputs

\* a call of build_trade_packets_batch, whatever order the maps iterate in
TradesCall ==
    /\ input.kind = "Trades"
    /\ ~output.called
    /\ \E order \in GroupOrders(input.trades) :
          LET r == build_trade_packets_batch(input.trades, order,
                                             sequence_counter)
          IN  /\ output' = [called |-> TRUE, result |-> r.packets]
              /\ sequence_counter' = r.counter
    /\ UNCHANGED <<taskVars, envVars, runVars, input, observe, stats, sendObs,
                   handshakes, built, emitterVars, pool>>

\* a call of build_trade_batch_packets
TradeBatchCall ==
    /\ input.kind = "TradeBatch"
    /\ ~output.called
    /\ LET r == build_trade_batch_packets(input, sequence_counter)
       IN  /\ output' = [called |-> TRUE, result |-> r.packets]
           /\ sequence_counter' = r.counter
    /\ UNCHANGED <<taskVars, envVars, runVars, input, observe, stats, sendObs,
                   handshakes, built, emitterVars, pool>>

NextTrades == TradesCall \/ TradeBatchCall

SpecTrades == InitTrades /\ [][NextTrades]_vars

\* the arrival positions of the trades carried by a run of datagrams
RECURSIVE CarriedTrades(_)
CarriedTrades(ps) ==
    IF ps = <<>> THEN <<>>
    ELSE [i \in 1..Len(Head(ps).items) |-> Head(ps).items[i].qty]
         \o CarriedTrades(Tail(ps))

\* a run of datagrams is one logical message: chunk indexes 0..K-1 of K,
\* is_last on the last one only, at most `most` items each, none empty
OneMessage(ps, most) ==
    /\ ps # <<>>
    /\ \A i \in 1..Len(ps) :
          /\ ps[i].idx = i - 1
          /\ ps[i].total = Len(ps)
          /\ ps[i].mt = MESSAGE_TYPE_TRADE_TICK
          /\ ItemCount(ps[i].fc) = Len(ps[i].items)
          /\ Len(ps[i].items) \in 1..most
          /\ IsLast(ps[i].fc) <=> (i = Len(ps))

\* C26: build_trade_packets_batch splits its trades by (timestamp, symbol,
\* venue) and emits each group as one logical message of chunks of at most
\* 50 items, with its own is_last and the group's symbol, venue and timestamp
\* in every header; build_trade_batch_packets emits chunks of at most 80
\* items under the batch's metadata; on both paths every input trade is
\* carried by exactly one item
C26_TradeGroups ==
    output.called /\ input.kind \in {"Trades", "TradeBatch"} =>
        LET ps == output.result
            trades == input.trades
            Of(key) == LET Mine(p) == <<p.timestamp, p.symbol, p.exchange>> = key
                       IN  SelectSeq(ps, Mine)
            carried == CarriedTrades(ps)
        IN  /\ Len(carried) = Len(trades)
            /\ \A i \in 1..Len(trades) :
                  Cardinality({j \in 1..Len(carried) :
                                  carried[j] = ScaleToWire(trades[i].quantity)}) = 1
            /\ input.kind = "Trades" =>
                  /\ \A i \in 1..Len(ps) :
                        <<ps[i].timestamp, ps[i].symbol, ps[i].exchange>>
                            \in TradeKeys(trades)
                  /\ \A i, j \in 1..Len(ps) :
                        (i < j /\ Of(<<ps[i].timestamp, ps[i].symbol,
                                       ps[i].exchange>>)
                                = Of(<<ps[j].timestamp, ps[j].symbol,
                                       ps[j].exchange>>))
                            => \A m \in i..j :
                                 <<ps[m].timestamp, ps[m].symbol, ps[m].exchange>>
                                   = <<ps[i].timestamp, ps[i].symbol,
                                       ps[i].exchange>>
                  /\ \A key \in TradeKeys(trades) :
                        /\ OneMessage(Of(key), TradeChunk)
                        /\ {CarriedTrades(Of(key))[j] :
                                j \in 1..Len(CarriedTrades(Of(key)))}
                           = {ScaleToWire(trades[i].quantity) :
                                i \in {i \in 1..Len(trades) :
                                        TradeKey(trades[i]) = key}}
            /\ input.kind = "TradeBatch" =>
                  /\ trades # <<>> => OneMessage(ps, TradeBatchChunk)
                  /\ trades = <<>> => ps = <<>>
                  /\ \A i \in 1..Len(ps) :
                        /\ ps[i].symbol = input.symbol
                        /\ ps[i].exchange = input.exchange
                        /\ ps[i].timestamp = input.exchange_timestamp

\* a vector of trades of two timestamps whose groups need two datagrams each
C26_Witness ==
    /\ output.called
    /\ input.kind = "Trades"
    /\ Cardinality(TradeKeys(input.trades)) = 2
    /\ Len(output.result) = 4
    /\ Len(output.result[1].items) = TradeChunk
    /\ IsLast(output.result[2].fc)
    /\ ~IsLast(output.result[3].fc)

\* C27: a buffer taken from the pool for a datagram goes back to the pool once
\* the datagram has been sent, so that with no datagram being built or waiting
\* to be sent the pool holds at least the buffers it held at the start
C27_PoolRestored ==
    ("pool" \in observe
        /\ \A s \in Sessions : packets[s] = <<>> /\ todo[s] = NoBuild)
    => pool >= PoolPrealloc

\* C28: on every sending socket, the primary one and the cached one of each
\* port, a send goes through the connected path when the connect of the
\* socket succeeded and through send_to the multicast group and that port
\* when it failed
C28_ConnectFallback ==
    sent.path # "none" =>
        sent.path = (IF sent.connected THEN "send" ELSE "send_to")

\* C29: the process ends with exit code 0 when the interrupt or the
\* run-duration timer ends it, and with a nonzero exit code when the session
\* supervisor has failed: when run is over with every session terminated by
\* retry exhaustion
C29_ExitCode ==
    process.exited =>
        /\ process.cause = "signal" => process.code = 0
        /\ (process.cause = "run" /\ \A s \in Handles : Terminated(s))
              => process.code # 0

\* ---------------------------------------------------------------------------
\* Price scaling as binary64 computes it (protocol.rs)
\* ---------------------------------------------------------------------------
PRICE_SCALE == 100000000

\* the significand of an f64
MantissaBits == 53

\* bit strings and strings of hexadecimal digits, most significant first
IntBits == 31
HexBits == 4
HexBase == 16

\* a bit string without its leading zeros
Strip(bits) ==
    LET ones == {i \in 1..Len(bits) : bits[i] = 1}
    IN  IF ones = {} THEN <<>>
        ELSE SubSeq(bits, CHOOSE i \in ones : \A j \in ones : i <= j,
                    Len(bits))

\* the bits of a natural below 2^31
BitsOf(n) == Strip([i \in 1..IntBits |-> (n \div Pow2(IntBits - i)) % 2])

\* the hexadecimal digits of a bit string
HexOf(bits) ==
    LET pad == (HexBits - (Len(bits) % HexBits)) % HexBits
        Bit(i) == IF i <= pad THEN 0 ELSE bits[i - pad]
    IN  [j \in 1..((Len(bits) + pad) \div HexBits) |->
            8 * Bit(4 * j - 3) + 4 * Bit(4 * j - 2)
                + 2 * Bit(4 * j - 1) + Bit(4 * j)]

\* the bits of a string of hexadecimal digits
BitsOfHex(digits) ==
    [i \in 1..(HexBits * Len(digits)) |->
        (digits[(i - 1) \div HexBits + 1]
            \div Pow2(HexBits - 1 - ((i - 1) % HexBits))) % 2]

\* the natural, below 2^31, of a string of hexadecimal digits
RECURSIVE NatOfHex(_)
NatOfHex(digits) ==
    IF digits = <<>> THEN 0
    ELSE HexBase * NatOfHex(SubSeq(digits, 1, Len(digits) - 1))
         + digits[Len(digits)]

NatOf(bits) == NatOfHex(HexOf(bits))

\* bits + 1
IncBits(bits) ==
    LET zeros == {i \in 1..Len(bits) : bits[i] = 0}
    IN  IF zeros = {} THEN <<1>> \o [i \in 1..Len(bits) |-> 0]
        ELSE LET last == CHOOSE i \in zeros : \A j \in zeros : j <= i
             IN  [i \in 1..Len(bits) |->
                    IF i < last THEN bits[i] ELSE IF i = last THEN 1 ELSE 0]

\* an f64 that is zero, and a positive one: m holds the MantissaBits bits of
\* its significand, most significant first, e is the exponent of the last
\* one, the value is m * 2^e
F64Zero == [m |-> <<>>, e |-> 0]

\* round to nearest, ties to even, of a significand with the bit after it
\* (guard) and whether anything nonzero follows (sticky)
F64Round(bits, guard, sticky, e) ==
    IF guard = 1 /\ (sticky \/ bits[Len(bits)] = 1)
    THEN LET up == IncBits(bits)
         IN  IF Len(up) > Len(bits)
             THEN [m |-> SubSeq(up, 1, Len(bits)), e |-> e + 1]
             ELSE [m |-> up, e |-> e]
    ELSE [m |-> bits, e |-> e]

\* an exact positive value bits * 2^e, and whether something nonzero lies
\* below it, rounded to an f64
F64Of(bits, e, below) ==
    LET dropped == Len(bits) - MantissaBits
    IN  IF dropped <= 0
        THEN [m |-> bits \o [i \in 1..(-dropped) |-> 0], e |-> e + dropped]
        ELSE F64Round(SubSeq(bits, 1, MantissaBits), bits[MantissaBits + 1],
                      below \/ \E i \in (MantissaBits + 2)..Len(bits) :
                                  bits[i] = 1,
                      e + dropped)

\* digits * 16^0 divided by d, digit by digit: quotient and remainder
RECURSIVE DivHex(_, _, _)
DivHex(digits, d, r) ==
    IF digits = <<>> THEN [q |-> <<>>, r |-> r]
    ELSE LET t == HexBase * r + Head(digits)
             rest == DivHex(Tail(digits), d, t % d)
         IN  [q |-> <<t \div d>> \o rest.q, r |-> rest.r]

\* hexadecimal digits kept after the point by the long division: enough for
\* MantissaBits + 1 significant bits of any quotient of 1 / 10^8 and above
FractionDigits == 20

\* n as f64 / d as f64 for naturals below 2^31 and d up to 10^8, which the
\* f64 holds exactly: the f64 nearest to the quotient.  It is also what
\* str::parse::<f64> makes of the decimal n / d when d is a power of ten
F64Div(n, d) ==
    IF n = 0 THEN F64Zero
    ELSE LET q == DivHex(HexOf(BitsOf(n)) \o [i \in 1..FractionDigits |-> 0],
                         d, 0)
         IN  F64Of(Strip(BitsOfHex(q.q)), -(HexBits * FractionDigits),
                   q.r # 0)

\* digits * c + carry, digit by digit from the last one
RECURSIVE MulHex(_, _, _)
MulHex(digits, c, carry) ==
    IF digits = <<>> THEN HexOf(BitsOf(carry))
    ELSE LET t == digits[Len(digits)] * c + carry
             front == SubSeq(digits, 1, Len(digits) - 1)
         IN  Append(MulHex(front, c, t \div HexBase), t % HexBase)

\* bits * c for a natural c up to 10^8
MulBits(bits, c) == Strip(BitsOfHex(MulHex(HexOf(bits), c, 0)))

\* x * (c as f64) for a natural c the f64 holds exactly: the exact product
\* rounded to MantissaBits bits
F64Mul(x, c) ==
    IF x = F64Zero \/ c = 0 THEN F64Zero
    ELSE F64Of(MulBits(x.m, c), x.e, FALSE)

\* x as i64 for an x >= 0 below 2^31: the fraction is cut off
F64ToInt(x) ==
    IF x = F64Zero \/ Len(x.m) + x.e <= 0 THEN 0
    ELSE NatOf(SubSeq(x.m, 1, Len(x.m) + x.e))

\* a - b for strings of digits of the same length, a >= b
RECURSIVE SubHex(_, _, _)
SubHex(a, b, borrow) ==
    IF a = <<>> THEN <<>>
    ELSE LET t == a[Len(a)] - b[Len(b)] - borrow
             rest == SubHex(SubSeq(a, 1, Len(a) - 1),
                            SubSeq(b, 1, Len(b) - 1),
                            IF t < 0 THEN 1 ELSE 0)
         IN  Append(rest, IF t < 0 THEN t + HexBase ELSE t)

\* a < b for bit strings of the same length
LessBits(a, b) ==
    \E i \in 1..Len(a) :
        /\ a[i] < b[i]
        /\ \A j \in 1..(i - 1) : a[j] = b[j]

\* the distance |x - y|, as bits and the exponent of the last one
F64Distance(x, y) ==
    LET e == Min(IF x = F64Zero THEN y.e ELSE x.e,
                 IF y = F64Zero THEN x.e ELSE y.e)
        Aligned(z) == IF z = F64Zero THEN <<>>
                      ELSE z.m \o [i \in 1..(z.e - e) |-> 0]
        width == Max(Len(Aligned(x)), Len(Aligned(y)))
        Wide(bits) == [i \in 1..(width - Len(bits)) |-> 0] \o bits
        a == Wide(Aligned(x))
        b == Wide(Aligned(y))
    IN  [bits |-> IF LessBits(a, b)
                  THEN Strip(BitsOfHex(SubHex(HexOf(b), HexOf(a), 0)))
                  ELSE Strip(BitsOfHex(SubHex(HexOf(a), HexOf(b), 0))),
         e |-> e]

\* |x - y| < 1 / c for a natural c up to 10^8
F64Within(x, y, c) ==
    LET d == F64Distance(x, y)
    IN  d.bits = <<>> \/ Len(MulBits(d.bits, c)) + d.e <= 0

\* TradeTickItem::new / OrderBookItem::new, lines 139 and 203:
\* (price * PRICE_SCALE as f64) as i64
ScaledPrice(price) == F64ToInt(F64Mul(price, PRICE_SCALE))

\* get_real_price, lines 192 and 256: self.price as f64 / PRICE_SCALE as f64
get_real_price(stored) == F64Div(stored, PRICE_SCALE)

\* the price with the 8 decimals of k * 10^-8 as the parser hands it over
DecimalPrice(k) == F64Div(k, PRICE_SCALE)

\* an item about to be built from a price of 8 decimals
InitScale ==
    /\ InitWith({}, {}, {}, {})
    /\ input \in { [kind |-> "price", units |-> k] : k \in 0..MaxWirePrice }

\* TradeTickItem::new on the price, then get_real_price on the item
ScaleCall ==
    /\ input.kind = "price"
    /\ ~output.called
    /\ output' = [called |-> TRUE,
                  result |-> [price |-> ScaledPrice(DecimalPrice(input.units)),
                              real |-> get_real_price(
                                  ScaledPrice(DecimalPrice(input.units)))]]
    /\ UNCHANGED <<sequence_counter, taskVars, envVars, runVars, input,
                   observe, stats, sendObs, handshakes, built, emitterVars,
                   pool>>

NextScale == ScaleCall

SpecScale == InitScale /\ [][NextScale]_vars

\* C30: the item built from a price p of 8 decimals stores trunc(p * 10^8),
\* and the stored price divided by 10^8 is less than 10^-8 away from p
C30_PriceRoundTrip ==
    (output.called /\ input.kind = "price") =>
        /\ output.result.price = input.units
        /\ F64Within(output.result.real, DecimalPrice(input.units),
                     PRICE_SCALE)

\* sequence number q has been consumed by a build, is not waiting in any
\* session's vector of datagrams and was never handed to the socket
Gone(q) ==
    /\ \E i \in 1..Len(built) : built[i] = q
    /\ \A i \in 1..Len(emitted) : emitted[i].seq # q
    /\ \A s \in Sessions : \A k \in 1..Len(packets[s]) : packets[s][k].seq # q

\* C31: when the send of a datagram of a frame fails with an error other than
\* WOULDBLOCK, that datagram is the last one of the frame handed to the
\* socket: the datagrams behind it, whose sequence numbers the build has
\* consumed, are given up and never handed over afterwards, and when the
\* failed datagram was not the last chunk no is_last datagram of its message
\* is ever handed over
C31_SendErrorLosesRest ==
    [][/\ \A s \in Sessions :
             SendPacketAs(s, "err")
             => /\ emitted' = Append(emitted, TraceEntry(packets[s][1]))
                /\ packets'[s] = <<>>
                /\ \A k \in 2..Len(packets[s]) :
                      \E q \in 0..(sequence_counter - 1) :
                          q = packets[s][k].seq /\ Gone(q)'
                /\ ~IsLast(packets[s][1].fc)
                   => \A i \in 1..Len(emitted') :
                         emitted'[i].msg = packets[s][1].msg
                         => ~IsLast(emitted'[i].fc)
        /\ \A q \in 0..(sequence_counter - 1) : Gone(q) => Gone(q)'
        /\ \A i \in 1..Len(emitted) :
             /\ Len(emitted') >= Len(emitted)
             /\ emitted'[i] = emitted[i]]_vars

\* the send of the first datagram of a two-chunk frame failed: the second
\* one, built with the next sequence number, is gone, and the datagram of the
\* next frame has been handed over two sequence numbers after the first
C31_Witness ==
    \E s \in Sessions :
        /\ Len(DataOf(s)) = 2
        /\ DataOf(s)[1].total = 2
        /\ DataOf(s)[1].idx = 0
        /\ ~IsLast(DataOf(s)[1].fc)
        /\ Gone(DataOf(s)[1].seq + 1)
        /\ DataOf(s)[2].frame = DataOf(s)[1].frame + 1
        /\ DataOf(s)[2].seq = DataOf(s)[1].seq + 2


\* C32: every UdpStats returned by get_stats while sessions send is the
\* state of the counters at one instant: some prefix of the datagrams the
\* socket took has packets_sent members and bytes_sent bytes; so
\* packets_sent = 0 gives bytes_sent = 0, and bytes_sent is at most
\* MaxPacketSize times packets_sent
C32_SnapshotConsistent ==
    ("snapshots" \in observe /\ output.called)
    => /\ \E k \in 0..Len(calls.log) :
             /\ output.result.packets_sent = k
             /\ output.result.bytes_sent = Sum(SubSeq(calls.log, 1, k))
       /\ output.result.packets_sent = 0 => output.result.bytes_sent = 0
       /\ output.result.bytes_sent
             <= MaxPacketSize * output.result.packets_sent


\* the delays of the claimed schedule in milliseconds, by failure counted
BackoffSchedule ==
    <<1000, 2000, 4000, 8000, 16000, 32000, 60000, 60000, 60000>>

\* C33: in the reconnect loop of a session a connection attempt starts
\* either first or right after one backoff sleep, a sleep is always followed
\* by an attempt, and the sleep after the k-th failure counted (1 <= k <= 9)
\* lasts the schedule's delay for retry k - 1: 1, 2, 4, 8, 16, 32, 60, 60,
\* 60 seconds; after the 10th failure the session does not sleep and makes
\* no further attempt
C33_OneSleepPerRetry ==
    [][\A s \in Sessions :
          /\ (pc[s] # "attempt" /\ pc'[s] = "attempt")
             => /\ pc[s] = "sleep"
                /\ retry_count[s] \in 1..(MAX_RETRY_COUNT - 1)
                /\ delay[s] = BackoffSchedule[retry_count[s]]
          /\ (pc[s] = "sleep" /\ pc'[s] # "sleep") => pc'[s] = "attempt"
          /\ (pc[s] = "returned" /\ pc'[s] # "returned")
             => /\ retry_count'[s] = retry_count[s] + 1
                /\ pc'[s] = "send_event"
                /\ IF retry_count'[s] < MAX_RETRY_COUNT
                   THEN /\ after'[s] = "sleep"
                        /\ delay'[s] = BackoffSchedule[retry_count'[s]]
                   ELSE /\ after'[s] = "done"
                        /\ delay'[s] = 0
          /\ (pc'[s] = "sleep" /\ pc[s] # "sleep")
             => /\ pc[s] = "send_event"
                /\ delay'[s] = BackoffSchedule[retry_count[s]]
          /\ retry_count[s] >= MAX_RETRY_COUNT
             => pc'[s] \notin {"sleep", "attempt", "connect"}]_vars

\* the session sleeps 60 seconds after the ninth failure it counted
C33_Witness ==
    \E s \in Sessions :
        /\ pc[s] = "sleep"
        /\ retry_count[s] = MAX_RETRY_COUNT - 1
        /\ delay[s] = 60000
        /\ Len(handshakes[s]) = MAX_RETRY_COUNT - 1


\* the payload structs of events.rs, lines 29-71, all repr(C, packed): the
\* widths of their fields in bytes
EventFields ==
    [Heartbeat |-> <<8, 4, 4>>,
     ConnectionStatus |-> <<2, 1, 1, 4, 8>>,
     SubscriptionStatus |-> <<2, 1, 1, 12>>,
     SystemStats |-> <<4, 4, 4, 4>>,
     ErrorEvent |-> <<4, 2, 2, 8>>]

\* build_event_packet_with_exchange, lines 43-58: one sequence number, the
\* header with set_flags_and_count(true, 1), and create_packet on the header
\* and the payload bytes of the event
build_event_packet_with_exchange(event, counter) ==
    LET seq == FetchAddTaken(counter)
        p == [seq |-> seq, event |-> event,
              fc |-> SetFlagsAndCount(TRUE, 1),
              size |-> HeaderSize + Sum(EventFields[event])]
    IN  [ok |-> ~(p.size > MaxPacketSize), packets |-> <<p>>,
         taken |-> <<seq>>, counter |-> FetchAddLeft(counter)]

\* order-book updates that only remove levels: quantity 0, or a negative
\* quantity as a venue's signed delta would give
VoidInputs ==
    { [kind |-> "OrderBook",
       ob |-> [bids |-> [i \in 1..nb |-> Level(i, -(i % 2))],
               asks |-> [i \in 1..na |-> Level(MaxLevels + i, -(i % 2))]]] :
        nb \in {0, 1, 2}, na \in {0, 1, 2} }

EventInputs == { [kind |-> "Event", event |-> e] : e \in DOMAIN EventFields }

\* a PacketBuilder about to be handed a record or a system event
InitSizes ==
    /\ InitWith({}, {}, {}, {})
    /\ input \in BuildInputs \cup VoidInputs \cup EventInputs

\* a call of build_packets on a record
RecordCall == input.kind # "Event" /\ BuildPackets

\* a call of build_event_packet_with_exchange (build_event_packet passes
\* the event on with the venue name of its exchange id, lines 61-63)
EventCall ==
    /\ input.kind = "Event"
    /\ ~output.called
    /\ output' = [called |-> TRUE,
                  result |-> build_event_packet_with_exchange(
                                 input.event, sequence_counter)]
    /\ built' = built \o output'.result.taken
    /\ sequence_counter' = output'.result.counter
    /\ UNCHANGED <<taskVars, envVars, runVars, input, observe, stats, sendObs,
                   handshakes, emitterVars, pool>>

NextSizes == RecordCall \/ EventCall

SpecSizes == InitSizes /\ [][NextSizes]_vars

\* C34: every datagram the builder returns is 67 + 16 * item_count bytes
\* long, item_count being the low 7 bits of flags_and_count, and item_count
\* is the number of items serialized; a system-event datagram has
\* item_count 1, is_last set and 83 bytes
C34_LengthFromCount ==
    (output.called /\ output.result.ok)
    => \A k \in 1..Len(output.result.packets) :
          LET p == output.result.packets[k]
          IN  /\ p.size = 67 + 16 * ItemCount(p.fc)
              /\ input.kind # "Event" => ItemCount(p.fc) = Len(p.items)
              /\ input.kind = "Event"
                 => /\ ItemCount(p.fc) = 1
                    /\ IsLast(p.fc)
                    /\ p.size = 83

\* a record built into two datagrams, the first one full with 80 items
C34_Witness ==
    /\ output.called
    /\ output.result.ok
    /\ input.kind = "OrderBook"
    /\ Len(output.result.packets) = 2
    /\ Len(output.result.packets[1].items) = 80
    /\ output.result.packets[1].size = 1347
    /\ ~IsLast(output.result.packets[1].fc)


\* a record with nothing to emit: an order-book update whose levels are all
\* absent or of quantity <= 0, a trade record without trades
NothingToEmit(record) ==
    CASE record.kind = "OrderBook" ->
            /\ \A i \in 1..Len(record.ob.bids) :
                    record.ob.bids[i].quantity <= 0
            /\ \A i \in 1..Len(record.ob.asks) :
                    record.ob.asks[i].quantity <= 0
      [] record.kind \in {"Trade", "TradeBatch"} -> record.trades = <<>>
      [] OTHER -> FALSE

\* C35: building a record with nothing to emit returns Ok with zero
\* datagrams and leaves the sequence counter where it was: no sequence
\* number is taken
C35_EmptyRecordTakesNothing ==
    [][(NothingToEmit(input) /\ ~output.called /\ output'.called)
       => /\ output'.result.ok
          /\ output'.result.packets = <<>>
          /\ output'.result.taken = <<>>
          /\ sequence_counter' = sequence_counter
          /\ built' = built]_vars

\* an update of two removed bids, one of them negative, was built into
\* nothing
C35_Witness ==
    /\ output.called
    /\ input.kind = "OrderBook"
    /\ Len(input.ob.bids) = 2
    /\ input.ob.bids[1].quantity < 0
    /\ input.ob.bids[2].quantity = 0
    /\ NothingToEmit(input)
    /\ output.result.packets = <<>>
    /\ sequence_counter = InitialSequence


(***************************************************************************)
(* quantity_with_flags (protocol.rs): an i64 as its 64 bits, w[i + 1]      *)
(* being bit i                                                             *)
(***************************************************************************)
WordBits == 64

\* the integers whose two's complement is spelled out bit by bit: one bit
\* less than the model's integers have
ValueBits == IntBits - 1

\* v as i64, two's complement, for -2^30 <= v < 2^30
I64Of(v) ==
    LET m == IF v >= 0 THEN v ELSE -v - 1
        BitOfM(i) == IF i < ValueBits THEN (m \div Pow2(i)) % 2 ELSE 0
    IN  [i \in 1..WordBits |->
            IF v >= 0 THEN BitOfM(i - 1) ELSE 1 - BitOfM(i - 1)]

\* the integer held by bits 0 .. ValueBits - 1 of a word
RECURSIVE LowValue(_, _)
LowValue(w, n) ==
    IF n = 0 THEN 0 ELSE w[n] * Pow2(n - 1) + LowValue(w, n - 1)

\* 0x7FFF_FFFF_FFFF_FFFF
QuantityMask == [i \in 1..WordBits |-> IF i < WordBits THEN 1 ELSE 0]

\* 1i64 << 63
FlagMask == [i \in 1..WordBits |-> IF i = WordBits THEN 1 ELSE 0]

\* a & b and a | b on i64
BitAnd(a, b) == [i \in 1..WordBits |-> a[i] * b[i]]
BitOr(a, b) == [i \in 1..WordBits |-> a[i] + b[i] - a[i] * b[i]]

\* a set_quantity_and_flag that leaves the quantity unmasked
set_quantity_and_flag_unmasked(q, flag) ==
    IF flag THEN BitOr(q, FlagMask) ELSE q

\* TradeTickItem::set_quantity_and_flag, lines 162-169, and
\* OrderBookItem::set_quantity_and_flag, lines 226-233: the same code
set_quantity_and_flag(q, flag) ==
    LET masked_quantity == BitAnd(q, QuantityMask)
    IN  IF flag THEN BitOr(masked_quantity, FlagMask) ELSE masked_quantity

\* TradeTickItem::quantity, lines 157-159, OrderBookItem::quantity, 221-223
item_quantity(w) == BitAnd(w, QuantityMask)

\* TradeTickItem::is_buyer_taker, lines 152-154, OrderBookItem::is_ask,
\* lines 216-218
is_ask(w) == BitAnd(w, FlagMask) # [i \in 1..WordBits |-> 0]

\* scaled quantities around zero and at the ends of the model's integers
MaxQuantity == 24

ScaledQuantities ==
    (-MaxQuantity..MaxQuantity)
    \cup {Pow2(ValueBits) - 1, -Pow2(ValueBits), 1 - Pow2(ValueBits)}

\* i64::MAX, i64::MIN and patterns with bits above the model's integers
WidePatterns ==
    { [i \in 1..WordBits |-> IF i \in ones THEN 1 ELSE 0] :
        ones \in {1..(WordBits - 1), {WordBits}, {WordBits - 1},
                  {WordBits, 1}, (WordBits - 1)..WordBits, {ValueBits + 1}} }

QuantityInputs ==
    { [kind |-> "quantity", known |-> TRUE, v |-> v, q |-> I64Of(v),
       flag |-> f] : v \in ScaledQuantities, f \in BOOLEAN }
    \cup
    { [kind |-> "quantity", known |-> FALSE, v |-> 0, q |-> w, flag |-> f] :
        w \in WidePatterns, f \in BOOLEAN }

\* an item about to have its quantity and its side flag set
InitQuantity ==
    /\ InitWith({}, {}, {}, {})
    /\ input \in QuantityInputs

\* a call of set_quantity_and_flag
SetQuantityCall ==
    /\ input # NoInput
    /\ ~output.called
    /\ output' = [called |-> TRUE,
                  result |-> set_quantity_and_flag(input.q, input.flag)]
    /\ UNCHANGED <<sequence_counter, taskVars, envVars, runVars, input,
                   observe, stats, built, sendObs, handshakes, emitterVars,
                   pool>>

NextQuantity == SetQuantityCall

SpecQuantity == InitQuantity /\ [][NextQuantity]_vars

\* C38: in quantity_with_flags bit 63 is the side flag and bits 0-62 are
\* those of the scaled quantity q, whatever q; the flag accessor returns the
\* flag that was set; for 0 <= q < 2^63 quantity() is q; a negative q leaves
\* q mod 2^63 in bits 0-62 and does not make the flag bit differ from the
\* flag
C38_FlagBitAndQuantity ==
    output.called
    => LET w == output.result
           q == input.q
           stored == item_quantity(w)
       IN  /\ w[WordBits] = (IF input.flag THEN 1 ELSE 0)
           /\ \A i \in 1..(WordBits - 1) : w[i] = q[i]
           /\ is_ask(w) = input.flag
           /\ q[WordBits] = 0 => stored = q
           /\ (input.known /\ input.v >= 0)
              => /\ LowValue(stored, ValueBits) = input.v
                 /\ \A i \in (ValueBits + 1)..WordBits : stored[i] = 0
           /\ (input.known /\ input.v < 0 /\ input.v > -Pow2(ValueBits))
              => /\ LowValue(stored, ValueBits) = Pow2(ValueBits) + input.v
                 /\ \A i \in (ValueBits + 1)..(WordBits - 1) : stored[i] = 1
                 /\ stored[WordBits] = 0

\* a negative quantity was stored on the bid side: the flag bit is clear
C38_Witness ==
    /\ output.called
    /\ input.known
    /\ input.v = -1
    /\ ~input.flag
    /\ input.q[WordBits] = 1
    /\ output.result[WordBits] = 0
    /\ ~is_ask(output.result)


\* one session whose exchange accepts one handshake and sends no market
\* data; the statistics of the emitter tell which events got out
InitEvents ==
    /\ InitLinked({1}, [s \in Sessions |-> IF s = 1 THEN MaxConnects ELSE 0],
                  [s \in Sessions |-> 0], {"history", "stats"})
    /\ input = NoInput

SpecEvents == InitEvents /\ [][NextQuiet]_vars

\* what the reconnect loop of a session goes by
Loop(s) == <<retry_count[s], delay[s], after[s], established[s],
             connects_left[s], handshakes[s]>>

\* C36: whatever the send of a ConnectionStatus event gives (sent,
\* WOULDBLOCK, error) the session goes on where it would have gone had the
\* event been delivered: same retry count, same backoff delay, same next
\* step; and a session terminates after MAX_RETRY_COUNT failures counted,
\* however many of its events got out
C36_EventFailureIgnored ==
    /\ [][\A s \in Sessions : \A res \in SendResults :
             SendEventAs(s, res)
             => /\ pc'[s] = after[s]
                /\ Loop(s)' = Loop(s)
                /\ pc'[s] = "sleep"
                   => delay[s] = calculate_backoff_delay(retry_count[s] - 1)
                /\ pc'[s] = "done" => retry_count[s] = MAX_RETRY_COUNT]_vars
    /\ [](\A s \in Sessions :
             pc[s] = "send_event"
             => \A res \in SendResults : ENABLED SendEventAs(s, res))
    /\ [](\A s \in Sessions :
             Terminated(s)
             => /\ retry_count[s] = MAX_RETRY_COUNT
                /\ Len(handshakes[s]) = MAX_RETRY_COUNT)

\* the session has made its ten attempts and terminated, and not one of
\* its events got out
C36_Witness ==
    /\ Terminated(1)
    /\ stats.packets_sent = 0
    /\ Len(events[1]) = 2 * MAX_RETRY_COUNT + 1
    /\ retry_count[1] = MAX_RETRY_COUNT
    /\ Len(handshakes[1]) = MAX_RETRY_COUNT


(***************************************************************************)
(* The default parser path (data_parser.rs, connection_manager.rs)         *)
(***************************************************************************)
\* the bytes of a frame shown in the debug line of parse_default_message
LogSnippet == 100

\* str::starts_with
starts_with(s, prefix) ==
    /\ Len(s) >= Len(prefix)
    /\ SubSeq(s, 1, Len(prefix)) = prefix

\* get_parser_for_exchange, lines 156-161
get_parser_for_exchange(exchange_name) ==
    IF starts_with(exchange_name, <<"B", "i", "n", "a", "n", "c", "e">>)
    THEN "parse_binance_message"
    ELSE "parse_default_message"

\* the text String::from_utf8_lossy makes of a frame: lead one-byte
\* characters followed by count characters of width bytes each (a byte that
\* is not UTF-8 becomes U+FFFD, three bytes)
TextLen(text) == text.lead + text.width * text.count

\* str::is_char_boundary
is_char_boundary(text, n) ==
    \/ n = 0
    \/ n = TextLen(text)
    \/ n <= text.lead
    \/ n < TextLen(text) /\ (n - text.lead) % text.width = 0

UnknownSymbol == <<"U", "N", "K", "N", "O", "W", "N", "^", "U", "S", "D", "T">>

\* parse_default_message, lines 357-375.  The argument of debug! is
\* evaluated when the debug level is enabled: &raw_text[..min(100, len)]
\* panics when byte 100 is not a character boundary.  Otherwise a dummy
\* trade is returned
parse_default_message(text, debug) ==
    IF debug /\ ~is_char_boundary(text, Min(LogSnippet, TextLen(text)))
    THEN [panic |-> TRUE]
    ELSE [panic |-> FALSE,
          record |-> [kind |-> "Trade", symbol |-> UnknownSymbol,
                      exchange |-> <<"U", "n", "k", "n", "o", "w", "n">>,
                      trades |-> <<[price |-> 0, quantity |-> 0,
                                    is_buyer_taker |-> FALSE]>>]]

\* process_message, lines 213-219, for a session on the default path:
\* parse_message puts the session's name on the record, build_packets
\* builds its datagrams
process_default_message(exchange, text, debug, counter) ==
    LET parsed == parse_default_message(text, debug)
    IN  IF parsed.panic
        THEN [panic |-> TRUE, ok |-> FALSE, packets |-> <<>>,
              counter |-> counter]
        ELSE LET record == Adjusted(exchange, parsed.record)
                 b == build_packets(record, counter)
             IN  [panic |-> FALSE, ok |-> b.ok,
                  packets |-> [i \in 1..Len(b.packets) |->
                                  [symbol |-> set_symbol(record.symbol),
                                   exchange |-> set_exchange(record.exchange),
                                   seq |-> b.packets[i].seq,
                                   mt |-> b.packets[i].mt,
                                   fc |-> b.packets[i].fc,
                                   items |-> b.packets[i].items]],
                  counter |-> b.counter]

\* venues without a parser of their own
OtherVenues == {<<"K", "r", "a", "k", "e", "n">>, <<"B", "y", "b", "i", "t">>}

\* frames around the length of the debug snippet, of ASCII and of wider
\* characters, as text or binary messages, with the debug level on or off
DefaultFrames ==
    { [kind |-> "default", exchange |-> v, message |-> m, debug |-> d,
       text |-> [lead |-> a, width |-> w, count |-> c]] :
        v \in OtherVenues, m \in {"Text", "Binary"}, d \in BOOLEAN,
        a \in {0, 1, LogSnippet - 2, LogSnippet - 1, LogSnippet,
               LogSnippet + 1},
        w \in 1..4, c \in {0, 1, 2} }

\* a session of a venue on the default path about to receive one frame
InitDefault ==
    /\ InitWith({}, {}, {}, {})
    /\ input \in DefaultFrames

\* connect_to_symbol_session, lines 337-350: a text or binary frame goes to
\* process_message
DefaultFrameCall ==
    /\ input # NoInput
    /\ ~output.called
    /\ get_parser_for_exchange(input.exchange) = "parse_default_message"
    /\ LET r == process_default_message(input.exchange, input.text,
                                        input.debug, sequence_counter)
       IN  /\ output' = [called |-> TRUE, result |-> r]
           /\ sequence_counter' = r.counter
    /\ UNCHANGED <<taskVars, envVars, runVars, input, observe, stats, sendObs,
                   handshakes, built, emitterVars, pool>>

NextDefault == DefaultFrameCall

SpecDefault == InitDefault /\ [][NextDefault]_vars

\* C37: on the default parser path every text or binary frame, whatever
\* its content, becomes exactly one TradeTick datagram of one item with
\* symbol UNKNOWN^USDT, price 0 and quantity 0, the session's venue in the
\* header, and takes one sequence number
C37_DefaultFrameIsOneTick ==
    output.called
    => /\ ~output.result.panic
       /\ output.result.ok
       /\ Len(output.result.packets) = 1
       /\ LET p == output.result.packets[1]
          IN  /\ p.mt = MESSAGE_TYPE_TRADE_TICK
              /\ p.seq = InitialSequence
              /\ ItemCount(p.fc) = 1
              /\ IsLast(p.fc)
              /\ Len(p.items) = 1
              /\ p.items[1].price = 0
              /\ p.items[1].qty = 0
              /\ SubSeq(p.symbol, 1, Len(UnknownSymbol)) = UnknownSymbol
              /\ p.symbol[Len(UnknownSymbol) + 1] = NUL
              /\ SubSeq(p.exchange, 1, Len(input.exchange)) = input.exchange
              /\ p.exchange[Len(input.exchange) + 1] = NUL
       /\ sequence_counter = InitialSequence + 1

====
